---------------------------- MODULE Spec2Model ----------------------------
(***************************************************************************)
(* The node tree of mknodes: navigations (MkNav), pages (MkPage) and leaf  *)
(* nodes (MkTable), the registration of pages and navigations in a         *)
(* navigation's keyed mapping, and the aggregation of the virtual files of *)
(* a subtree into one path-keyed mapping; the metadata and the path of a   *)
(* page; the rendering of a leaf node with header shift, indentation, css  *)
(* classes and header; and the merge of Requirements.                      *)
(*                                                                         *)
(* Strings of the program are sequences of one-character strings, so that  *)
(* joining, splitting and suffix removal are computed as the code computes *)
(* them.  A Python dict is a sequence of [k, v] records in insertion order *)
(* with pairwise different keys.                                           *)
(***************************************************************************)
EXTENDS Integers, Sequences, FiniteSets, TLC

\* ------------------------------------------------------------------ bounds
\* The number of navigations and pages that can be constructed (the root
\* included).
MaxNodes == 3
\* The number of table nodes that can be constructed.
MaxTables == 1
\* The number of add_file calls.
MaxFiles == 1
\* The number of all_virtual_files calls whose result the caller keeps.
MaxCalls == 1
\* The number of results the caller keeps where it compares one call with
\* the next.
MaxKept == 2
\* The number of item assignments nav[item] = node.
MaxAssign == 1
\* The number of metadata fields set on nodes after their construction.
MaxSets == 2
\* The number of metadata reads whose result the caller keeps.
MaxReads == 2
\* The number of Requirements.merge calls on one object.
MaxMerges == 2
\* The number of header shifts applied to one text.
MaxShifts == 2
\* The largest number of levels of one header shift, up or down.
MaxLevels == 2
\* The number of lines of a text.
MaxLines == 1
\* The number of text nodes.
MaxTexts == 1
\* The number of annotations of a node.
MaxNotes == 1
\* The number of packages a package requires.
MaxDeps == 2
\* The number of modules below the documented module.
MaxSubmodules == 2
\* The depth of calls the interpreter allows (its recursion limit).
MaxDepth == 6

\* ----------------------------------------------------------------- strings
\* Python's None. Characters are one-character strings, so no string of the
\* program equals this value.
None == <<"None">>

sX == <<"X">>
sY == <<"Y">>
sEmpty == <<>>
sSlash == <<"/">>
sDot == <<".">>
sMd == <<".", "m", "d">>
sSUMMARY == <<"S", "U", "M", "M", "A", "R", "Y">>
sSUMMARY_MD == sSUMMARY \o sMd
sIndexMd == <<"i", "n", "d", "e", "x">> \o sMd
sCss == <<"a", ".", "c", "s", "s">>
sA == <<"a">>
sB == <<"b">>

\* str.endswith(suffix)
EndsWith(s, suffix) ==
    /\ Len(suffix) <= Len(s)
    /\ SubSeq(s, Len(s) - Len(suffix) + 1, Len(s)) = suffix

\* str.removesuffix(suffix)
removesuffix(s, suffix) ==
    IF suffix # <<>> /\ EndsWith(s, suffix)
    THEN SubSeq(s, 1, Len(s) - Len(suffix))
    ELSE s

\* sep.join(parts), parts a sequence of strings
RECURSIVE join(_, _)
join(sep, parts) ==
    IF parts = <<>> THEN <<>>
    ELSE IF Len(parts) = 1 THEN parts[1]
    ELSE parts[1] \o sep \o join(sep, Tail(parts))

\* s.split(ch) for a one-character separator: a sequence of strings
RECURSIVE split(_, _)
split(s, ch) ==
    IF \A i \in 1..Len(s) : s[i] # ch THEN <<s>>
    ELSE LET i == CHOOSE j \in 1..Len(s) :
                    s[j] = ch /\ \A k \in 1..(j - 1) : s[k] # ch
         IN <<SubSeq(s, 1, i - 1)>> \o split(SubSeq(s, i + 1, Len(s)), ch)

\* reversed(seq)
reversed(seq) == [i \in 1..Len(seq) |-> seq[Len(seq) + 1 - i]]

\* ------------------------------------------------------------------- dicts
\* dict[k] = v: an existing key keeps its position, a new key goes last.
DictSet(d, k, v) ==
    IF \E i \in 1..Len(d) : d[i].k = k
    THEN [i \in 1..Len(d) |-> IF d[i].k = k THEN [k |-> k, v |-> v] ELSE d[i]]
    ELSE Append(d, [k |-> k, v |-> v])

DictKeys(d) == {d[i].k : i \in 1..Len(d)}
DictHas(d, k) == k \in DictKeys(d)
DictGet(d, k) == d[CHOOSE i \in 1..Len(d) : d[i].k = k].v
DictValues(d) == [i \in 1..Len(d) |-> d[i].v]

\* a |= b
RECURSIVE DictUpdate(_, _)
DictUpdate(a, b) ==
    IF b = <<>> THEN a
    ELSE DictUpdate(DictSet(a, b[1].k, b[1].v), Tail(b))

\* The keys of a dict are pairwise different.
DictWellFormed(d) == \A i, j \in 1..Len(d) : d[i].k = d[j].k => i = j

\* ------------------------------------------------------------------- state
VARIABLES
    kind,       \* node id -> "none" (not constructed), "MkNav", "MkPage", "MkTable"
    parent,     \* Node.parent: node id, 0 for None
    section,    \* MkNav.section: a string or None
    path,       \* MkNav.path (set by the constructor); MkPage._path
    nav,        \* MkNav.nav: dict key -> node id
    items,      \* the child nodes of a page, in order
    data,       \* MkTable.data: a sequence of columns [name, values]
    files,      \* MkNode._files: dict file name -> content
    held,       \* the mappings all_virtual_files returned and the caller kept
    assigned,   \* the number of item assignments nav[item] = node so far
    metadata,   \* MkPage._metadata and MkNav.metadata: field -> value or None
    is_homepage,\* MkPage._is_homepage
    mread,      \* the metadata objects read from pages and kept by the caller
    loaded,     \* for a page made by MkPage.from_file: the header and the kwargs
    req,        \* a Requirements object (the receiver of merge)
    req_args,   \* the records merged into req so far, in order
    text0,      \* a markdown text as it was given
    text,       \* the text after the header shifts applied to it
    shifts,     \* the shifts applied: by the function or the processor, and the levels
    header,     \* MkNode.header
    indent,     \* MkNode.indent
    shift_levels,\* MkNode.shift_header_levels
    css_classes,\* MkNode._css_classes: the set, in the order its iteration yields
    css_added,  \* the css classes of a node in the order they were first added
    raw,        \* the raw markdown the formatting rule of a text node gives
    annotations,\* MkNode.annotations: dict number -> annotation text
    project_root,\* Project._root: a node id, 0 for None
    own_project,\* MkNode._associated_project is the project (TRUE) or None
    outcome,    \* the last call of the project or the plugin: how it ended
    package,    \* MkDependencyTable.package: None or the name of a package
    required,   \* package -> what get_required_packages of its info returns
    written,    \* the files MkNodesPlugin.on_files wrote, in order
    mod_members,\* module -> the modules inspect.getmembers finds in it, in order
    in_package, \* module -> its __name__ starts with the name of the root module
    frames,     \* the active iter_classes calls, the outermost first
    seen_sets,  \* the set objects made for seen
    entered,    \* module -> the number of recursive iter_classes calls for it
    calls       \* the number of iter_classes calls made from outside

\* The state of the tree, of the page metadata, and everything beside the tree.
tree == <<kind, parent, section, path, nav, items, data, files, held, assigned>>
meta == <<metadata, is_homepage, mread, loaded>>
reqs == <<req, req_args>>
shifted == <<text0, text, shifts>>
attrs == <<header, indent, shift_levels, css_classes, css_added>>
leaf == <<raw, annotations>>
proj == <<project_root, own_project, outcome>>
dep == <<package, required>>
plug == <<written>>
walk == <<mod_members, in_package, frames, seen_sets, entered, calls>>
late == <<proj, dep, plug, walk>>
more == <<leaf, late>>
rest == <<reqs, shifted, attrs, more>>
beside_reqs == <<tree, meta, shifted, attrs, more>>
beside_shifted == <<tree, meta, reqs, attrs, more>>
ext == <<meta, rest>>
vars == <<tree, ext>>

Nodes == 1..(MaxNodes + MaxTables)
Root == 1

\* The next object to construct (0: none left).
Fresh == IF \E n \in Nodes : kind[n] = "none"
         THEN CHOOSE n \in Nodes : kind[n] = "none" /\ \A m \in 1..(n - 1) : kind[m] # "none"
         ELSE 0

IsNav(n) == kind[n] = "MkNav"
IsPage(n) == kind[n] = "MkPage"
IsTable(n) == kind[n] = "MkTable"

\* Whether another navigation or page, or another table, can be constructed.
CanConstructNode == Cardinality({n \in Nodes : IsNav(n) \/ IsPage(n)}) < MaxNodes
CanConstructTable == Cardinality({n \in Nodes : IsTable(n)}) < MaxTables

\* Keys of MkNav.nav: None, a string or a tuple of strings.  The type t keeps
\* the string "X" and the tuple ("X",) apart; s holds the string as its only
\* element, or the elements of the tuple.
KeyNone == [t |-> "None", s |-> <<>>]
KeyStr(s) == [t |-> "str", s |-> <<s>>]
KeyTuple(parts) == [t |-> "tuple", s |-> parts]
StrOf(key) == key.s[1]


\* ------------------------------------------------------------ treelib.Node
\* Node.ancestors: the chain of parents, the nearest first.
RECURSIVE ancestors(_)
ancestors(n) ==
    IF parent[n] = 0 THEN <<>> ELSE <<parent[n]>> \o ancestors(parent[n])

\* MkNav.children: list(self.nav.values()); the children of a page are its
\* items; a leaf node has none.
children(n) ==
    IF IsNav(n) THEN DictValues(nav[n])
    ELSE IF IsPage(n) THEN items[n]
    ELSE <<>>

\* Node.descendants: the nodes below n in pre-order, n itself left out.
RECURSIVE descendants(_)
RECURSIVE descendants_of_all(_)
descendants_of_all(ns) ==
    IF ns = <<>> THEN <<>>
    ELSE <<ns[1]>> \o descendants(ns[1]) \o descendants_of_all(Tail(ns))

descendants(n) == descendants_of_all(children(n))

SeqToSet(seq) == {seq[i] : i \in 1..Len(seq)}

\* ----------------------------------------------------------------- MkTable
Max(S) == CHOOSE x \in S : \A y \in S : y <= x

\* MkBaseTable.width_for_column: the longest text of the column, its header
\* included.
width_for_column(c) ==
    Max({Len(c.name)} \cup {Len(c.values[i]) : i \in 1..Len(c.values)})

\* "{:<w}".format(s): s padded with spaces on the right to width w
ljust(s, w) ==
    IF Len(s) >= w THEN s ELSE s \o [i \in 1..(w - Len(s)) |-> " "]

\* str.replace("\n", "<br>")
RECURSIVE replace_newline(_)
replace_newline(s) ==
    IF s = <<>> THEN <<>>
    ELSE (IF s[1] = "\n" THEN <<"<", "b", "r", ">">> ELSE <<s[1]>>)
         \o replace_newline(Tail(s))

\* MkBaseTable.iter_rows: the i-th values of all columns, for every i up to
\* the shortest column.
NumRows(d) ==
    IF d = <<>> THEN 0
    ELSE CHOOSE m \in 0..Max({Len(d[i].values) : i \in 1..Len(d)}) :
            /\ \A i \in 1..Len(d) : m <= Len(d[i].values)
            /\ \E i \in 1..Len(d) : m = Len(d[i].values)

\* "| " + " | ".join(cells) + " |"
table_line(cells) == <<"|", " ">> \o join(<<" ", "|", " ">>, cells) \o <<" ", "|">>

\* A variant of _to_markdown without the test for empty data: the header
\* line and the divider are rendered for any columns.
MkTable_to_markdown_unguarded(d) ==
    LET headers == [i \in 1..Len(d) |-> ljust(d[i].name, width_for_column(d[i]))]
        divider == [i \in 1..Len(d) |->
                      [j \in 1..width_for_column(d[i]) |-> "-"]]
        row(r)  == [i \in 1..Len(d) |->
                      ljust(replace_newline(d[i].values[r]), width_for_column(d[i]))]
        lines   == <<table_line(headers), table_line(divider)>>
                   \o [r \in 1..NumRows(d) |-> table_line(row(r))]
    IN join(<<"\n">>, lines) \o <<"\n">>

\* MkTable._to_markdown
MkTable_to_markdown(d) ==
    IF \A i \in 1..Len(d) : d[i].values = <<>> THEN <<>>
    ELSE
      LET headers == [i \in 1..Len(d) |-> ljust(d[i].name, width_for_column(d[i]))]
          divider == [i \in 1..Len(d) |->
                        [j \in 1..width_for_column(d[i]) |-> "-"]]
          row(r)  == [i \in 1..Len(d) |->
                        ljust(replace_newline(d[i].values[r]), width_for_column(d[i]))]
          lines   == <<table_line(headers), table_line(divider)>>
                     \o [r \in 1..NumRows(d) |-> table_line(row(r))]
      IN join(<<"\n">>, lines) \o <<"\n">>


\* ------------------------------------------------------- mkdocs_gen_files.Nav
\* The literate nav builder the navigation renders itself with.  Its data is
\* a trie of titles; here a dict from a tuple of titles to a target (None
\* for a title that only groups others), in the order the trie creates them.

\* Nav.__setitem__ raises ValueError for an empty tuple and for an empty
\* title.
GenNavRaises(parts) ==
    parts = <<>> \/ \E i \in 1..Len(parts) : parts[i] = <<>>

\* cur = cur.setdefault(key, {}) for every title of the key
RECURSIVE GenNavPrefixes(_, _, _)
GenNavPrefixes(g, parts, i) ==
    IF i > Len(parts) THEN g
    ELSE LET pre == SubSeq(parts, 1, i)
         IN GenNavPrefixes(IF DictHas(g, pre) THEN g ELSE DictSet(g, pre, None),
                           parts, i + 1)

\* Nav.__setitem__: cur[None] = value
GenNavSet(g, parts, target) == DictSet(GenNavPrefixes(g, parts, 1), parts, target)

\* One line of Nav.build_literate_nav.
GenNavLine(level, title, target) ==
    [i \in 1..(4 * level) |-> " "] \o <<"*", " ">>
    \o (IF target = None THEN title
        ELSE <<"[">> \o title \o <<"]", "(">> \o target \o <<")">>)
    \o <<"\n">>

\* Nav.build_literate_nav: every title below prefix, each followed by the
\* titles below it.
RECURSIVE GenNavBuild(_, _, _)
GenNavBuild(g, prefix, i) ==
    IF i > Len(g) THEN <<>>
    ELSE LET e == g[i]
         IN (IF Len(e.k) = Len(prefix) + 1 /\ SubSeq(e.k, 1, Len(prefix)) = prefix
             THEN GenNavLine(Len(prefix), e.k[Len(e.k)], e.v)
                  \o GenNavBuild(g, e.k, 1)
             ELSE <<>>)
            \o GenNavBuild(g, prefix, i + 1)

\* ------------------------------------------------------------------ MkPage
\* str(x) of a string or None
str(x) == IF x = None THEN <<"N", "o", "n", "e">> ELSE x

\* MkPage.__init__: self._path = str(path) if path else None
MkPage_init_path(given) ==
    IF given # None /\ given # <<>> THEN given ELSE None

\* MkPage.path of a page with _path = p that is no homepage; the title of
\* the metadata is not set by add_page and add_index_page.
MkPage_path(p) ==
    IF p # None /\ p # <<>>
    THEN removesuffix(p, sMd) \o sMd
    ELSE str(None) \o sMd

\* ------------------------------------------------------------------- MkNav
\* The key a str or tuple item is stored under by MkNav.__setitem__.
setitem_key(item) ==
    IF item.t = "str" THEN KeyTuple(split(StrOf(item), ".")) ELSE item

\* A variant of register_key that stores a page under its path, extension
\* included, and a navigation under its bare section name.
register_key_plain(k, sec, p) ==
    IF k = "MkNav" THEN KeyStr(str(sec)) ELSE KeyStr(MkPage_path(p))

\* MkNav._register: the key a node of class k is stored under, sec its
\* section and p its _path.
register_key(k, sec, p) ==
    IF k = "MkNav" THEN KeyTuple(<<sec>>)
    ELSE KeyStr(removesuffix(MkPage_path(p), sMd))

\* A variant of _register that keeps the entry a key already has
\* (dict.setdefault).
MkNav_register_keep(d, node, k, sec, p) ==
    IF DictHas(d, register_key(k, sec, p)) THEN d
    ELSE DictSet(d, register_key(k, sec, p), node)

\* MkNav._register(node): the mapping d of the navigation afterwards.
MkNav_register(d, node, k, sec, p) == DictSet(d, register_key(k, sec, p), node)

\* The titles mkdocs_gen_files.Nav takes a key of MkNav.nav as.
KeyParts(key) == IF key.t = "str" THEN <<StrOf(key)>> ELSE key.s

\* The target MkNav.to_markdown gives the entry of item.
nav_target(item) ==
    IF IsPage(item) THEN MkPage_path(path[item]) ELSE str(section[item]) \o <<"/">>

\* MkNav.to_markdown: the loop over self.nav.items(), from entry i on.
RECURSIVE nav_fill(_, _, _)
nav_fill(g, d, i) ==
    IF i > Len(d) THEN g
    ELSE IF d[i].k = KeyNone THEN nav_fill(g, d, i + 1)
    ELSE nav_fill(GenNavSet(g, KeyParts(d[i].k), nav_target(d[i].v)), d, i + 1)

MkNav_to_markdown_raises(n) ==
    \E i \in 1..Len(nav[n]) :
        nav[n][i].k # KeyNone /\ GenNavRaises(KeyParts(nav[n][i].k))

MkNav_to_markdown(n) == GenNavBuild(nav_fill(<<>>, nav[n], 1), <<>>, 1)

\* MkNav.virtual_files
MkNav_virtual_files(n) == <<[k |-> path[n], v |-> MkNav_to_markdown(n)]>>

\* ----------------------------------------------------- shift_header_levels
\* count * "#"
hashes(count) == [i \in 1..count |-> "#"]

\* The number of "#" a line starts with.
RECURSIVE leading(_)
leading(line) ==
    IF line # <<>> /\ line[1] = "#" THEN 1 + leading(Tail(line)) ELSE 0

\* HEADER_REGEX matches in the line: ^(#{1,6}) (.*) with ^ at the start of
\* every line; the line starts with one to six "#" and a blank.
header_match(line) ==
    /\ leading(line) \in 1..6
    /\ Len(line) > leading(line)
    /\ line[leading(line) + 1] = " "

\* A variant of mod_header that keeps the last characters of the marker where
\* the code drops them (header_str[levels:] for header_str[:levels]).
mod_header_keep_tail(line, levels) ==
    LET h == leading(line)
        header_str == IF levels > 0 THEN hashes(h + levels)
                      ELSE IF levels = 0 THEN hashes(h)
                      ELSE IF h + levels <= 0 THEN hashes(h)
                      ELSE hashes(0 - levels)
    IN header_str \o <<" ">> \o SubSeq(line, h + 2, Len(line))

\* A variant of mod_header that leaves out the blank after the marker.
mod_header_no_blank(line, levels) ==
    LET h == leading(line)
        header_str == IF levels > 0 THEN hashes(h + levels)
                      ELSE IF levels = 0 \/ h + levels <= 0 THEN <<>>
                      ELSE hashes(h + levels)
    IN header_str \o SubSeq(line, h + 2, Len(line))

\* mod_header(match, levels) for a line HEADER_REGEX matches: match[1] is
\* the marker and match[2] the rest of the line behind the blank;
\* header_str[:levels] of a marker of h "#" has h + levels of them for
\* levels < 0, none when that is below 1, and none for levels = 0.
mod_header(line, levels) ==
    LET h == leading(line)
        header_str == IF levels > 0 THEN hashes(h + levels)
                      ELSE IF levels = 0 \/ h + levels <= 0 THEN <<>>
                      ELSE hashes(h + levels)
    IN header_str \o <<" ">> \o SubSeq(line, h + 2, Len(line))

\* re.sub(HEADER_REGEX, ...) over the lines of a text
sub_headers(lines, levels) ==
    [i \in 1..Len(lines) |->
        IF header_match(lines[i]) THEN mod_header(lines[i], levels) ELSE lines[i]]

\* shift_header_levels(text, levels)
shift_header_levels(t, levels) == join(<<"\n">>, sub_headers(split(t, "\n"), levels))

\* ShiftHeaderLevelProcessor(level_shift).run(text)
ShiftHeaderLevelProcessor_run(t, level_shift) ==
    IF level_shift = 0 THEN t
    ELSE join(<<"\n">>, sub_headers(split(t, "\n"), level_shift))

\* ----------------------------------------------------------------- Project
\* MkNode.associated_project is a property with a getter only: an
\* assignment to it raises AttributeError.
associated_project_has_setter == FALSE

\* MkNode.associated_project: the node's own project, else that of the
\* nearest ancestor that has one, else None.  There is one project.
associated_project(n) ==
    IF own_project[n] THEN "project"
    ELSE IF \E i \in 1..Len(ancestors(n)) : own_project[ancestors(n)[i]] THEN "project"
    ELSE "None"

\* The root Project.all_files and Project.get_requirements read: self._root.
Project_root_used == project_root

\* ------------------------------------------------------- MkDependencyTable
\* The backtick, under a name: a TLA+ string cannot hold the character.
sBacktick == <<"backtick">>

\* str(MkLink(url, title)): the markdown link.
MkLink(url, title) == <<"[">> \o title \o <<"]", "(">> \o url \o <<")">>

\* MkBaseTable.to_item: the text of a cell.
to_item(item) == item

\* The rows MkDependencyTable.data builds of the required packages deps.
dependency_rows(deps) ==
    [i \in 1..Len(deps) |->
        [Name    |-> IF deps[i].url # None /\ deps[i].url # <<>>
                     THEN MkLink(deps[i].url, deps[i].name)
                     ELSE sBacktick \o deps[i].name \o sBacktick,
         Summary |-> deps[i].summary,
         Markers |-> deps[i].marker]]

\* MkDependencyTable.data (the property) of node n: the error it raises, if
\* any, and the mapping it returns: without an info the empty mapping, else
\* one column for every key of the first row; rows[0] of no rows raises
\* IndexError.
MkDependencyTable_data(n) ==
    LET info == IF package[n].t = "None" /\ associated_project(n) # "None"
                THEN "project"
                ELSE IF package[n].t = "str" THEN package[n].name
                ELSE "none"
        rows == dependency_rows(required[info])
    IN IF info = "none" THEN [raised |-> "none", val |-> <<>>]
       ELSE IF rows = <<>> THEN [raised |-> "IndexError", val |-> <<>>]
       ELSE [raised |-> "none",
             val |-> <<[name   |-> <<"N", "a", "m", "e">>,
                        values |-> [i \in 1..Len(rows) |-> to_item(rows[i].Name)]],
                       [name   |-> <<"S", "u", "m", "m", "a", "r", "y">>,
                        values |-> [i \in 1..Len(rows) |-> to_item(rows[i].Summary)]],
                       [name   |-> <<"M", "a", "r", "k", "e", "r", "s">>,
                        values |-> [i \in 1..Len(rows) |-> to_item(rows[i].Markers)]]>>]

\* str(table) of a dependency table: the error reading data raises, else
\* the text MkTable._to_markdown makes of the data.
MkDependencyTable_to_markdown(n) ==
    LET d == MkDependencyTable_data(n)
    IN IF d.raised # "none" THEN [raised |-> d.raised, val |-> <<>>]
       ELSE [raised |-> "none", val |-> MkTable_to_markdown(d.val)]

\* ------------------------------------------------------------------ MkNode
\* textwrap.indent(text, prefix): the prefix before every line that has more
\* than blanks; the lines keep their line ends.
RECURSIVE textwrap_indent(_, _)
textwrap_indent(t, prefix) ==
    IF t = <<>> THEN <<>>
    ELSE LET n    == IF \E i \in 1..Len(t) : t[i] = "\n"
                     THEN CHOOSE i \in 1..Len(t) :
                              t[i] = "\n" /\ \A j \in 1..(i - 1) : t[j] # "\n"
                     ELSE Len(t)
             line == SubSeq(t, 1, n)
         IN (IF \A i \in 1..Len(line) : line[i] \in {" ", "\n"}
             THEN line ELSE prefix \o line)
            \o textwrap_indent(SubSeq(t, n + 1, Len(t)), prefix)

\* " ".join(f".{kls_name}" for kls_name in classes), classes in the order
\* the iteration over the set yields them
RECURSIVE css_names(_)
css_names(classes) ==
    IF classes = <<>> THEN <<>>
    ELSE IF Len(classes) = 1 THEN <<".">> \o classes[1]
    ELSE <<".">> \o classes[1] \o <<" ">> \o css_names(Tail(classes))

\* f"{{: {classes}}}"
css_suffix(classes) == <<"{", ":", " ">> \o css_names(classes) \o <<"}">>

\* The decimal digits of a small number.
digits(i) == <<<<"0">>, <<"1">>, <<"2">>, <<"3">>, <<"4">>, <<"5">>,
               <<"6">>, <<"7">>, <<"8">>, <<"9">>>>[i + 1]

\* str(annotations): the numbered list of the annotations, one per line.
RECURSIVE annotation_list(_)
annotation_list(ann) ==
    IF ann = <<>> THEN <<>>
    ELSE digits(ann[1].k) \o <<".", " ">> \o ann[1].v \o <<"\n">>
         \o annotation_list(Tail(ann))

\* MkAnnotations.annotate_text(text): the text as it is when nothing is
\* annotated, and else the numbered list behind the text block.
annotate_text(ann, t) ==
    IF ann = <<>> THEN t ELSE t \o <<"\n", "\n">> \o annotation_list(ann)

\* MkNode.attach_annotations; every node but MkAnnotations has annotations.
attach_annotations(n, t) == annotate_text(annotations[n], t)

\* MkNode._to_markdown, as the class of the node supplies it.
raw_markdown(n) ==
    IF kind[n] = "MkText" THEN raw[n]
    ELSE IF kind[n] = "MkDependencyTable" THEN MkDependencyTable_to_markdown(n).val
    ELSE MkTable_to_markdown(data[n])

\* MkNode.to_markdown, the header shift: applied when the shift is not 0.
shifted_text(n, t) ==
    IF shift_levels[n] # 0 THEN shift_header_levels(t, shift_levels[n]) ELSE t

\* MkNode.to_markdown, the indentation: applied when indent is not empty.
indented_text(n, t) ==
    IF indent[n] # <<>> THEN textwrap_indent(t, indent[n]) ELSE t

\* MkNode.to_markdown, the css classes: the suffix when there are classes.
classed_text(n, t) ==
    IF css_classes[n] # <<>> THEN t \o css_suffix(css_classes[n]) ELSE t

\* MkNode.to_markdown, the header: as it is when it starts with "#", else
\* behind "## ", and a blank line before the text.
headed_text(n, t) ==
    IF header[n] = <<>> THEN t
    ELSE (IF header[n][1] = "#" THEN header[n] ELSE <<"#", "#", " ">> \o header[n])
         \o <<"\n", "\n">> \o t

\* A variant of MkNode.to_markdown that indents before it shifts.
MkNode_to_markdown_indent_first(n) ==
    attach_annotations(n,
        headed_text(n, classed_text(n,
            shifted_text(n, indented_text(n, raw_markdown(n))))))

\* MkNode.to_markdown of a leaf node: the raw markdown, shifted, indented,
\* with the css classes, behind the header and with the annotations.
MkNode_to_markdown(n) ==
    attach_annotations(n,
        headed_text(n, classed_text(n,
            indented_text(n, shifted_text(n, raw_markdown(n))))))

\* MkContainer.to_markdown of a page: the text of its items, concatenated.
RECURSIVE concat_markdown(_)
concat_markdown(ns) ==
    IF ns = <<>> THEN <<>>
    ELSE MkNode_to_markdown(ns[1]) \o concat_markdown(Tail(ns))

MkPage_to_markdown(n) == concat_markdown(items[n])

\* The virtual files of a page: its own files and its own document.
MkPage_virtual_files(n) ==
    DictUpdate(files[n],
               <<[k |-> MkPage_path(path[n]), v |-> MkPage_to_markdown(n)]>>)

\* MkNode.virtual_files, as overridden by the node's class.
virtual_files(n) ==
    IF IsNav(n) THEN MkNav_virtual_files(n)
    ELSE IF IsPage(n) THEN MkPage_virtual_files(n)
    ELSE files[n]

virtual_files_raises(n) == IsNav(n) /\ MkNav_to_markdown_raises(n)

\* A variant of resolved_parts that does not reverse the collected names.
resolved_parts_unreversed(n) ==
    LET own   == IF IsNav(n) /\ section[n] # None /\ section[n] # <<>>
                 THEN <<section[n]>> ELSE <<>>
        named == SelectSeq(ancestors(n),
                     LAMBDA a : IsNav(a) /\ section[a] # None /\ section[a] # <<>>)
    IN own \o [i \in 1..Len(named) |-> section[named[i]]]

\* MkNode.resolved_parts
resolved_parts(n) ==
    LET own   == IF IsNav(n) /\ section[n] # None /\ section[n] # <<>>
                 THEN <<section[n]>> ELSE <<>>
        named == SelectSeq(ancestors(n),
                     LAMBDA a : IsNav(a) /\ section[a] # None /\ section[a] # <<>>)
        parts == own \o [i \in 1..Len(named) |-> section[named[i]]]
    IN reversed(parts)

\* A variant of the directory prefix that joins the sections as the ancestors
\* come, the nearest first.
resolved_section_unreversed(n) ==
    LET navs     == SelectSeq(ancestors(n), IsNav)
        sections == [i \in 1..Len(navs) |-> section[navs[i]]]
        joined   == join(sSlash, SelectSeq(sections, LAMBDA i : i # None))
    IN IF joined # <<>> THEN joined \o sSlash ELSE joined

\* The directory prefix of MkNode.resolved_virtual_files.
resolved_section(n) ==
    LET navs     == SelectSeq(ancestors(n), IsNav)
        sections == [i \in 1..Len(navs) |-> section[navs[i]]]
        joined   == join(sSlash, SelectSeq(reversed(sections), LAMBDA i : i # None))
    IN IF joined # <<>> THEN joined \o sSlash ELSE joined

\* MkNode.resolved_virtual_files
resolved_virtual_files(n) ==
    LET vf == virtual_files(n)
    IN [i \in 1..Len(vf) |-> [k |-> resolved_section(n) \o vf[i].k, v |-> vf[i].v]]

\* MkNode.all_virtual_files: the loop over the descendants ds.
RECURSIVE merge_resolved(_, _)
merge_resolved(all_files, ds) ==
    IF ds = <<>> THEN all_files
    ELSE merge_resolved(DictUpdate(all_files, resolved_virtual_files(ds[1])), Tail(ds))

\* A variant of all_virtual_files that merges the node's own files first and
\* the files of its descendants after them.
all_virtual_files_self_first(n, only_children) ==
    merge_resolved(IF ~only_children THEN resolved_virtual_files(n) ELSE <<>>,
                   descendants(n))

\* MkNode.all_virtual_files
all_virtual_files(n, only_children) ==
    LET all_files == merge_resolved(<<>>, descendants(n))
    IN IF ~only_children
       THEN DictUpdate(all_files, resolved_virtual_files(n))
       ELSE all_files

all_virtual_files_raises(n, only_children) ==
    \/ \E i \in 1..Len(descendants(n)) : virtual_files_raises(descendants(n)[i])
    \/ ~only_children /\ virtual_files_raises(n)

\* A variant of all_virtual_files that hands out the mapping of an earlier
\* call on the same node again.
all_virtual_files_object_cached(n, only_children) ==
    IF \E i \in 1..Len(held) :
          held[i].node = n /\ held[i].only_children = only_children /\ ~held[i].raised
    THEN LET i == CHOOSE j \in 1..Len(held) :
                    /\ held[j].node = n /\ held[j].only_children = only_children
                    /\ ~held[j].raised
         IN [alias |-> 0, val |-> held[i].val]
    ELSE [alias |-> 0, val |-> all_virtual_files(n, only_children)]

\* A variant of all_virtual_files that hands out the _files dict of a node
\* that has nothing else to merge.
all_virtual_files_object_alias(n, only_children) ==
    IF IsTable(n) /\ ~only_children
    THEN [alias |-> n, val |-> files[n]]
    ELSE [alias |-> 0, val |-> all_virtual_files(n, only_children)]

\* What MkNode.all_virtual_files hands to its caller: a dict object of its
\* own (alias = 0) holding val.  alias = m would be the _files dict of node
\* m itself, which later add_file calls on m change.
all_virtual_files_object(n, only_children) ==
    [alias |-> 0, val |-> all_virtual_files(n, only_children)]

\* What the caller reads in a mapping it holds.
Content(h) == IF h.alias # 0 THEN files[h.alias] ELSE h.val


\* ----------------------------------------------------------- MkNodesPlugin
\* The parameters of Project.__init__ beside self, and the one without a
\* default.
Project_init_params == {"theme", "base_url", "use_directory_urls", "repo_path"}
Project_init_required == {"theme"}

\* Project(**kwargs) raises TypeError for a keyword that is no parameter
\* and for a missing parameter without a default.
Project_init_raises(kwargs) ==
    ~(kwargs \subseteq Project_init_params) \/ ~(Project_init_required \subseteq kwargs)

\* The keywords on_files constructs its project with.
on_files_project_kwargs == {"config", "files"}

\* MkNode.all_css of the nodes modelled: none of their classes names a
\* stylesheet (CSS = None), so the css is the empty string.
all_css(n) == <<>>

\* The mode on_files opens a file with: "w" for str, "wb" for bytes.  The
\* contents of all files modelled are str.
open_mode(v) == "w"

\* MkNodesPlugin.on_files, with a build script that ends as ends says and
\* leaves the project with the root r: the error the handler raises and
\* the files it wrote before, in order.
on_files_result(ends, r) ==
    IF Project_init_raises(on_files_project_kwargs)
    THEN [raised |-> "TypeError", written |-> <<>>]
    ELSE IF ends = "SystemExit(1)"
    THEN [raised |-> "PluginError", written |-> <<>>]
    ELSE IF r = 0
    THEN [raised |-> "RuntimeError", written |-> <<>>]
    ELSE IF all_virtual_files_raises(r, FALSE)
    THEN [raised |-> "ValueError", written |-> <<>>]
    ELSE LET fs == all_virtual_files(r, FALSE)
         IN [raised  |-> "none",
             written |-> [i \in 1..Len(fs) |->
                            [k |-> fs[i].k, v |-> fs[i].v, mode |-> open_mode(fs[i].v)]]
                         \o (IF all_css(r) # <<>>
                             THEN <<[k |-> <<"mknodes.css">>, v |-> all_css(r),
                                     mode |-> "wb"]>>
                             ELSE <<>>)]

\* ----------------------------------------------------- ModuleDocumentation
\* A variant of the choice of seen that starts every call with a new set.
iter_classes_seen_fresh(sets, given) == Len(sets) + 1

\* seen = _seen or set() in iter_classes: the set object the call uses,
\* sets being the set objects there are and given the one passed as _seen
\* (0 for None).  An empty set is falsy like None: a new set is made.
iter_classes_seen(sets, given) ==
    IF given # 0 THEN (IF sets[given] # {} THEN given ELSE Len(sets) + 1)
    ELSE Len(sets) + 1

\* classhelpers.to_module(submodule) for a module object: the module, or
\* None, on which the call returns at once.
to_module_results == {"module", "None"}

\* The set objects after the call chose its seen.
with_seen(sets, id) == IF id > Len(sets) THEN Append(sets, {}) ELSE sets

\* The condition of the loop over the module members for the member submod:
\* its name starts with the name of the documented module and it is not
\* in seen.
recurses_into(submod, seen) == in_package[submod] /\ submod \notin seen

\* ---------------------------------------------------------------- Metadata
\* The metadata fields modelled; a field that is not set holds None.  (The
\* field "created" is set by every page constructor and never inherited.)
Fields == {"title", "icon"}
NoMetadata == [f \in Fields |-> None]

\* Metadata.update(other): the fields other sets replace those of self.
Metadata_update(self, other) ==
    [f \in Fields |-> IF other[f] # None THEN other[f] ELSE self[f]]

\* MkNode.parent_navs: the ancestor navigations, from the root to the nearest.
parent_navs(n) == reversed(SelectSeq(ancestors(n), LAMBDA a : IsNav(a)))

\* for nav in navs: meta.update(nav.metadata)
RECURSIVE update_all(_, _)
update_all(m, navs) ==
    IF navs = <<>> THEN m
    ELSE update_all(Metadata_update(m, metadata[navs[1]]), Tail(navs))

\* A variant of the metadata property that applies the page's own metadata
\* first and the navigations' afterwards.
MkPage_metadata_own_first(n) == update_all(metadata[n], parent_navs(n))

\* MkPage.metadata (getter): the value of the Metadata object it builds.
MkPage_metadata(n) ==
    Metadata_update(update_all(NoMetadata, parent_navs(n)), metadata[n])

\* A variant of the getter that builds the object on the first read of a
\* page and hands it out again afterwards.
MkPage_metadata_object_cached(n) ==
    IF \E i \in 1..Len(mread) : mread[i].page = n
    THEN mread[CHOOSE i \in 1..Len(mread) : mread[i].page = n].val
    ELSE MkPage_metadata(n)

\* What a read of page.metadata hands to the caller: a Metadata object built
\* by this read.
MkPage_metadata_object(n) == MkPage_metadata(n)

\* count * s for a string s; empty for a count below 1
RECURSIVE repeat(_, _)
repeat(s, count) == IF count <= 0 THEN <<>> ELSE s \o repeat(s, count - 1)

\* str.lstrip(ch)
RECURSIVE lstrip(_, _)
lstrip(s, ch) == IF s # <<>> /\ s[1] = ch THEN lstrip(Tail(s), ch) ELSE s

\* MkPage.path (getter) of page n: whether it raises and what it returns.
\* No branch of it raises.
MkPage_path_get(n) ==
    [raised |-> FALSE,
     val |-> IF is_homepage[n]
             THEN repeat(<<".", ".", "/">>, Len(parent_navs(n)) - 1) \o sIndexMd
             ELSE IF path[n] # None /\ path[n] # <<>>
             THEN removesuffix(path[n], sMd) \o sMd
             ELSE str(MkPage_metadata(n)["title"]) \o sMd]

\* A variant of resolved_file_path without the homepage case.
MkPage_resolved_file_path_plain(n) ==
    lstrip(join(sSlash, resolved_parts(n)) \o sSlash \o MkPage_path_get(n).val, "/")

\* MkPage.resolved_file_path
MkPage_resolved_file_path(n) ==
    IF is_homepage[n] THEN sIndexMd
    ELSE lstrip(join(sSlash, resolved_parts(n)) \o sSlash \o MkPage_path_get(n).val,
                "/")

\* ------------------------------------------------------------ Requirements
\* Requirements(): the dataclass with its default fields.
Requirements ==
    [css |-> <<>>, templates |-> <<>>, markdown_extensions |-> <<>>,
     plugins |-> {}, js_files |-> <<>>]

\* mergehelpers.merge_dicts(a, b) for flat dicts: b laid over a, in place.
merge_dicts(a, b) == DictUpdate(a, b)

\* A variant of merge that adds only the templates self does not hold yet.
Requirements_merge_dedup(self, other) ==
    [css |-> DictUpdate(self.css, other.css),
     templates |-> self.templates
                   \o SelectSeq(other.templates,
                                LAMBDA t : t \notin SeqToSet(self.templates)),
     markdown_extensions |-> merge_dicts(self.markdown_extensions,
                                         other.markdown_extensions),
     plugins |-> self.plugins \cup other.plugins,
     js_files |-> DictUpdate(self.js_files, other.js_files)]

\* Requirements.merge(other): the fields of self afterwards.
Requirements_merge(self, other) ==
    [css |-> DictUpdate(self.css, other.css),
     templates |-> self.templates \o other.templates,
     markdown_extensions |-> merge_dicts(self.markdown_extensions,
                                         other.markdown_extensions),
     plugins |-> self.plugins \cup other.plugins,
     js_files |-> DictUpdate(self.js_files, other.js_files)]

\* ------------------------------------------------------------------ inputs
RootSections == {None, sY}
Sections == {sX, sY, sEmpty}
PageArgs == {[title |-> sY, filename |-> None],
             [title |-> sSUMMARY, filename |-> None],
             [title |-> sY, filename |-> sX]}
FilePageArgs == {[title |-> sY, filename |-> None],
                 [title |-> sSUMMARY, filename |-> None]}
Items == {KeyStr(sX), KeyStr(sX \o sDot \o sY)}
TableData == {<<[name |-> <<"A">>, values |-> << <<"1">> >>]>>,
              <<[name |-> <<"A">>, values |-> <<>>]>>}
FileNames == {sCss, sSUMMARY_MD}
FileData == {<<"d", "1">>, <<"d", "2">>}
MetaValues == {sA, sB}
PageTitles == {None, sY}
PagePaths == {None, sX}
FileMeta == {[f \in Fields |-> IF f = "icon" THEN sA ELSE None],
             [f \in Fields |-> IF f = "title" THEN sY ELSE None]}
Kwargs == {NoMetadata, [f \in Fields |-> IF f = "icon" THEN sB ELSE None]}
HashCounts == {0, 1, 4, 5, 6, 7}
LineTails == {<<" ", "a">>, <<"a">>, <<" ">>}
Lines == {hashes(h) \o t : h \in HashCounts, t \in LineTails}
Texts == {join(<<"\n">>, ls) : ls \in UNION {[1..k -> Lines] : k \in 1..MaxLines}}
Levels == (0 - MaxLevels)..MaxLevels
Headers == {<<>>, <<"H">>, <<"#", " ", "H">>}
Indents == {<<>>, <<" ">>}
ShiftArgs == {0, 1}
RenderTexts == {<<"#", " ", "a">>, <<"a", "\n", "#", " ", "a", "\n">>, <<>>}
RenderShifts == {0 - 1, 0, 1}
NoteKeys == 1..MaxNotes
Notes == {sA, sB}
CssNames == {sA, sB}
RenderTableData == TableData \cup
    {<<>>,
     <<[name |-> <<"A">>, values |-> <<>>], [name |-> <<"B">>, values |-> <<>>]>>,
     <<[name |-> <<"#", " ", "A">>, values |-> << <<"1", "\n", "2">> >>]>>}
CssInputs == {<<>>,
              <<[k |-> sCss, v |-> <<"1">>]>>,
              <<[k |-> sCss, v |-> <<"2">>], [k |-> sB, v |-> <<"1">>]>>}
JsInputs == {<<>>, <<[k |-> sA, v |-> <<"1">>]>>, <<[k |-> sA, v |-> <<"2">>]>>}
TemplateInputs == {<<>>, <<"t1">>, <<"t2">>}
PluginInputs == {{}, {"p"}, {"q"}}
ExtensionInputs == {<<>>, <<[k |-> sA, v |-> <<"1">>]>>}
\* The Requirements a merge starts from, and the records merged into them.
ReqInputs ==
    {[css |-> c, templates |-> t, markdown_extensions |-> <<>>,
      plugins |-> p, js_files |-> <<>>] :
        c \in CssInputs, t \in TemplateInputs, p \in PluginInputs}
OtherInputs ==
    {[css |-> c, templates |-> t, markdown_extensions |-> e,
      plugins |-> p, js_files |-> j] :
        c \in CssInputs \ {<<>>}, t \in TemplateInputs \ {<<>>},
        p \in PluginInputs \ {{}}, j \in JsInputs \ {<<>>},
        e \in ExtensionInputs \ {<<>>}}

\* -------------------------------------------------------------------- Init
\* A variant of the constructor that leaves the section out of self.path.
MkNav_init_path_flat(s) == sSUMMARY_MD

\* MkNav.__init__: self.path
MkNav_init_path(s) ==
    IF s # None /\ s # <<>> THEN s \o sSlash \o sSUMMARY_MD ELSE sSUMMARY_MD

\* No page is made from a file.
NotLoaded == [is |-> FALSE, data |-> NoMetadata, kwargs |-> NoMetadata]

\* Nodes as they are constructed: no metadata, no homepage, nothing read.
InitMeta ==
    /\ metadata = [n \in Nodes |-> NoMetadata]
    /\ is_homepage = [n \in Nodes |-> FALSE]
    /\ mread = <<>>
    /\ loaded = [n \in Nodes |-> NotLoaded]

\* The state after root = MkNav(section), without or with a section name.
InitTree ==
    /\ kind = [n \in Nodes |-> IF n = Root THEN "MkNav" ELSE "none"]
    /\ parent = [n \in Nodes |-> 0]
    /\ \E s \in RootSections :
          /\ section = [n \in Nodes |-> IF n = Root THEN s ELSE None]
          /\ path = [n \in Nodes |-> IF n = Root THEN MkNav_init_path(s) ELSE None]
    /\ nav = [n \in Nodes |-> <<>>]
    /\ items = [n \in Nodes |-> <<>>]
    /\ data = [n \in Nodes |-> <<>>]
    /\ files = [n \in Nodes |-> <<>>]
    /\ held = <<>>
    /\ assigned = 0

\* An empty Requirements object nothing was merged into.
InitRequirements ==
    /\ req = Requirements
    /\ req_args = <<>>

\* No text is given.
InitText ==
    /\ text0 = <<>>
    /\ text = <<>>
    /\ shifts = <<>>

\* Nodes as they are constructed by default.
InitAttrs ==
    /\ header = [n \in Nodes |-> <<>>]
    /\ indent = [n \in Nodes |-> <<>>]
    /\ shift_levels = [n \in Nodes |-> 0]
    /\ css_classes = [n \in Nodes |-> <<>>]
    /\ css_added = [n \in Nodes |-> <<>>]

\* No text node is constructed and nothing is annotated.
InitLeaf ==
    /\ raw = [n \in Nodes |-> <<>>]
    /\ annotations = [n \in Nodes |-> <<>>]

\* No call was made.
NoCall == [op |-> "none", raised |-> "none", node |-> 0, arg |-> "none"]

\* A project without a root; no node was given the project.
InitProject ==
    /\ project_root = 0
    /\ own_project = [n \in Nodes |-> FALSE]
    /\ outcome = NoCall

\* The packages an info can be asked for: the one of the project and the
\* ones given by name.
Infos == {"project", "a", "b"}

\* The modules: the documented module and the ones below it.
Modules == 0..MaxSubmodules
RootModule == 0

\* No dependency table is constructed; no package requires another.
NoPackage == [t |-> "None", name |-> "none"]
Packages == {NoPackage, [t |-> "str", name |-> "a"], [t |-> "str", name |-> "b"],
             [t |-> "PackageInfo", name |-> "a"]}

InitDep ==
    /\ package = [n \in Nodes |-> NoPackage]
    /\ required = [p \in Infos |-> <<>>]

\* The plugin wrote nothing.
InitPlug == written = <<>>

\* No iter_classes call is active or was made.
InitCalls ==
    /\ frames = <<>>
    /\ seen_sets = <<>>
    /\ entered = [m \in Modules |-> 0]
    /\ calls = 0

\* A module without modules as members.
InitWalk ==
    /\ mod_members = [m \in Modules |-> <<>>]
    /\ in_package = [m \in Modules |-> TRUE]
    /\ InitCalls

InitMore == InitLeaf /\ InitProject /\ InitDep /\ InitPlug /\ InitWalk

\* The packages that can be required, and the lists get_required_packages
\* can return.
AllDeps ==
    [i \in 1..MaxDeps |->
        IF i % 2 = 1
        THEN [name |-> sA, url |-> None, summary |-> sX, marker |-> <<>>]
        ELSE [name |-> sB, url |-> sY, summary |-> sX, marker |-> sY]]
DepLists == {SubSeq(AllDeps, 1, k) : k \in 0..MaxDeps}

\* The state after root = MkNav(), with any required packages of the
\* installed packages and of the project's own.
InitDependencies ==
    /\ InitTree /\ section[Root] = None
    /\ InitMeta /\ InitRequirements /\ InitText /\ InitAttrs
    /\ InitLeaf /\ InitProject /\ InitPlug /\ InitWalk
    /\ package = [n \in Nodes |-> NoPackage]
    /\ required \in [Infos -> DepLists]

InitRest == InitRequirements /\ InitText /\ InitAttrs /\ InitMore

Init == InitTree /\ InitMeta /\ InitRest

\* The state after root = MkNav().
InitUnnamed == Init /\ section[Root] = None

\* ----------------------------------------------------------------- actions
\* MkNav.add_nav(section) on navigation n
add_nav(n, s) ==
    LET navi == Fresh
    IN /\ IsNav(n)
       /\ CanConstructNode
       /\ kind' = [kind EXCEPT ![navi] = "MkNav"]
       /\ section' = [section EXCEPT ![navi] = s]
       /\ path' = [path EXCEPT ![navi] = MkNav_init_path(s)]
       /\ parent' = [parent EXCEPT ![navi] = n]
       /\ nav' = [nav EXCEPT ![n] = MkNav_register(nav[n], navi, "MkNav", s, None)]
       /\ UNCHANGED <<items, data, files, held, assigned, ext>>

\* MkNav.add_page(title, filename=...) on navigation n
add_page(n, title, filename) ==
    LET page  == Fresh
        given == IF filename # None /\ filename # <<>> THEN filename ELSE title \o sMd
        p     == MkPage_init_path(given)
    IN /\ IsNav(n)
       /\ CanConstructNode
       /\ kind' = [kind EXCEPT ![page] = "MkPage"]
       /\ path' = [path EXCEPT ![page] = p]
       /\ parent' = [parent EXCEPT ![page] = n]
       /\ nav' = [nav EXCEPT ![n] = MkNav_register(nav[n], page, "MkPage", None, p)]
       /\ UNCHANGED <<section, items, data, files, held, assigned, ext>>

\* MkNav.add_index_page() on navigation n
add_index_page(n) ==
    LET page == Fresh
    IN /\ IsNav(n)
       /\ CanConstructNode
       /\ kind' = [kind EXCEPT ![page] = "MkPage"]
       /\ path' = [path EXCEPT ![page] = MkPage_init_path(sIndexMd)]
       /\ parent' = [parent EXCEPT ![page] = n]
       /\ nav' = [nav EXCEPT ![n] = DictSet(nav[n], KeyNone, page)]
       /\ UNCHANGED <<section, items, data, files, held, assigned, ext>>

\* MkNav.__setitem__(item, node) on navigation n, node a page or navigation
\* that exists.  A navigation is not stored below itself: the walk over its
\* descendants would not end.
setitem(n, item, node) ==
    /\ IsNav(n)
    /\ IsNav(node) \/ IsPage(node)
    /\ node # n
    /\ n \notin SeqToSet(descendants(node))
    /\ assigned < MaxAssign
    /\ assigned' = assigned + 1
    /\ nav' = [nav EXCEPT ![n] = DictSet(nav[n], setitem_key(item), node)]
    /\ UNCHANGED <<kind, parent, section, path, items, data, files, held, ext>>

\* page += MkTable(data=d): a new table node as the last item of page p
add_table(p, d) ==
    LET table == Fresh
    IN /\ IsPage(p)
       /\ CanConstructTable
       /\ kind' = [kind EXCEPT ![table] = "MkTable"]
       /\ data' = [data EXCEPT ![table] = d]
       /\ parent' = [parent EXCEPT ![table] = p]
       /\ items' = [items EXCEPT ![p] = Append(items[p], table)]
       /\ UNCHANGED <<section, path, nav, files, held, assigned, ext>>

NumFiles == LET RECURSIVE Sum(_)
                Sum(i) == IF i = 0 THEN 0 ELSE Len(files[i]) + Sum(i - 1)
            IN Sum(MaxNodes + MaxTables)

\* MkNode.add_file(filename, data) on node n
add_file(n, filename, d) ==
    /\ kind[n] # "none"
    /\ DictHas(files[n], filename) \/ NumFiles < MaxFiles
    /\ files' = [files EXCEPT ![n] = DictSet(files[n], filename, d)]
    /\ UNCHANGED <<kind, parent, section, path, nav, items, data, held, assigned, ext>>

\* A call of MkNode.all_virtual_files on node n whose result the caller
\* keeps; seen is what the caller read in it right after the call.
call_all_virtual_files(n, only_children, limit) ==
    /\ kind[n] # "none"
    /\ Len(held) < limit
    /\ IF all_virtual_files_raises(n, only_children)
       THEN held' = Append(held, [node |-> n, only_children |-> only_children,
                                  raised |-> TRUE, alias |-> 0,
                                  val |-> <<>>, seen |-> <<>>])
       ELSE LET obj == all_virtual_files_object(n, only_children)
            IN held' = Append(held, [node |-> n, only_children |-> only_children,
                                     raised |-> FALSE, alias |-> obj.alias,
                                     val |-> obj.val, seen |-> Content(obj)])
    /\ UNCHANGED <<kind, parent, section, path, nav, items, data, files, assigned, ext>>

\* page = MkPage(title, path=p, is_homepage=home, parent=par); par is a
\* navigation or 0 for no parent.
MkPage_new(par, title, p, home) ==
    LET page == Fresh
    IN /\ page # 0
       /\ IF par = 0 THEN TRUE ELSE IsNav(par)
       /\ kind' = [kind EXCEPT ![page] = "MkPage"]
       /\ path' = [path EXCEPT ![page] = MkPage_init_path(p)]
       /\ parent' = [parent EXCEPT ![page] = par]
       /\ metadata' = [metadata EXCEPT ![page] = [NoMetadata EXCEPT !["title"] = title]]
       /\ is_homepage' = [is_homepage EXCEPT ![page] = home]
       /\ UNCHANGED <<section, nav, items, data, files, held, assigned, mread, loaded, rest>>

\* page = MkPage.from_file(path, title, parent=par, **kwargs) for a file
\* named Y.md whose header parses to data.  The parsed fields and the
\* keyword arguments are put into the object page.metadata returns, which
\* is built by that read and dropped after it.
MkPage_from_file(par, title, d, kwargs) ==
    LET page == Fresh
    IN /\ page # 0
       /\ IF par = 0 THEN TRUE ELSE IsNav(par)
       /\ kind' = [kind EXCEPT ![page] = "MkPage"]
       /\ path' = [path EXCEPT ![page] = MkPage_init_path(sY \o sMd)]
       /\ parent' = [parent EXCEPT ![page] = par]
       /\ metadata' = [metadata EXCEPT ![page] = [NoMetadata EXCEPT !["title"] = title]]
       /\ loaded' = [loaded EXCEPT ![page] = [is |-> TRUE, data |-> d, kwargs |-> kwargs]]
       /\ UNCHANGED <<section, nav, items, data, files, held, assigned, is_homepage, mread, rest>>

\* The number of fields set on nodes after their construction.
NumSets ==
    Cardinality({<<n, f>> \in Nodes \X Fields :
                    /\ metadata[n][f] # None
                    /\ ~(IsPage(n) /\ f = "title")})

\* page.title = v, page.icon = v: the setters of a page.
MkPage_set(n, f, v) ==
    /\ IsPage(n)
    /\ metadata[n][f] # None \/ NumSets < MaxSets
    /\ metadata' = [metadata EXCEPT ![n][f] = v]
    /\ UNCHANGED <<tree, is_homepage, mread, loaded, rest>>

\* nav.metadata[f] = v on a navigation
MkNav_set_metadata(n, f, v) ==
    /\ IsNav(n)
    /\ metadata[n][f] # None \/ NumSets < MaxSets
    /\ metadata' = [metadata EXCEPT ![n][f] = v]
    /\ UNCHANGED <<tree, is_homepage, mread, loaded, rest>>

\* A read of page.metadata whose result the caller keeps.
read_metadata(n) ==
    /\ IsPage(n)
    /\ Len(mread) < MaxReads
    /\ mread' = Append(mread, [page |-> n, val |-> MkPage_metadata_object(n)])
    /\ UNCHANGED <<tree, metadata, is_homepage, loaded, rest>>

\* req = Requirements(css=..., templates=..., plugins=...)
Requirements_new(r) ==
    /\ req = Requirements /\ req_args = <<>>
    /\ r # Requirements
    /\ req' = r
    /\ UNCHANGED <<beside_reqs, req_args>>

\* req.merge(other)
merge(other) ==
    /\ Len(req_args) < MaxMerges
    /\ req' = Requirements_merge(req, other)
    /\ req_args' = Append(req_args, other)
    /\ UNCHANGED beside_reqs

\* A markdown text is given.
give_text(t) ==
    /\ text0 = <<>> /\ shifts = <<>>
    /\ text0' = t
    /\ text' = t
    /\ UNCHANGED <<beside_shifted, shifts>>

\* text = shift_header_levels(text, levels)
shift(levels) ==
    /\ text0 # <<>>
    /\ Len(shifts) < MaxShifts
    /\ text' = shift_header_levels(text, levels)
    /\ shifts' = Append(shifts, [by |-> "function", levels |-> levels])
    /\ UNCHANGED <<beside_shifted, text0>>

\* text = ShiftHeaderLevelProcessor(levels).run(text)
run_shift_processor(levels) ==
    /\ text0 # <<>>
    /\ Len(shifts) < MaxShifts
    /\ text' = ShiftHeaderLevelProcessor_run(text, levels)
    /\ shifts' = Append(shifts, [by |-> "processor", levels |-> levels])
    /\ UNCHANGED <<beside_shifted, text0>>

\* table = MkTable(data=d, header=h, indent=ind, shift_header_levels=levels)
MkTable_new(d, h, ind, levels) ==
    LET table == Fresh
    IN /\ table # 0
       /\ CanConstructTable
       /\ kind' = [kind EXCEPT ![table] = "MkTable"]
       /\ data' = [data EXCEPT ![table] = d]
       /\ header' = [header EXCEPT ![table] = h]
       /\ indent' = [indent EXCEPT ![table] = ind]
       /\ shift_levels' = [shift_levels EXCEPT ![table] = levels]
       /\ UNCHANGED <<parent, section, path, nav, items, files, held, assigned,
                      meta, reqs, shifted, css_classes, css_added, more>>

\* node = MkText(t, header=h, indent=ind, shift_header_levels=levels)
MkText_new(t, h, ind, levels) ==
    LET node == Fresh
    IN /\ node # 0
       /\ Cardinality({n \in Nodes : kind[n] = "MkText"}) < MaxTexts
       /\ kind' = [kind EXCEPT ![node] = "MkText"]
       /\ raw' = [raw EXCEPT ![node] = t]
       /\ header' = [header EXCEPT ![node] = h]
       /\ indent' = [indent EXCEPT ![node] = ind]
       /\ shift_levels' = [shift_levels EXCEPT ![node] = levels]
       /\ UNCHANGED <<parent, section, path, nav, items, data, files, held, assigned,
                      meta, reqs, shifted, css_classes, css_added, annotations, late>>

\* node.annotations[num] = v
annotate(n, num, v) ==
    /\ kind[n] \in {"MkText", "MkTable"}
    /\ annotations' = [annotations EXCEPT ![n] = DictSet(annotations[n], num, v)]
    /\ UNCHANGED <<tree, meta, reqs, shifted, attrs, raw, late>>

\* Project.get_root(section=s): self._root = MkNav(project=self, section=s)
get_root(s) ==
    LET node == Fresh
    IN /\ node # 0
       /\ CanConstructNode
       /\ kind' = [kind EXCEPT ![node] = "MkNav"]
       /\ section' = [section EXCEPT ![node] = s]
       /\ path' = [path EXCEPT ![node] = MkNav_init_path(s)]
       /\ own_project' = [own_project EXCEPT ![node] = TRUE]
       /\ project_root' = node
       /\ outcome' = [op |-> "get_root", raised |-> "none", node |-> node, arg |-> "none"]
       /\ UNCHANGED <<parent, nav, items, data, files, held, assigned,
                      meta, reqs, shifted, attrs, leaf, dep, plug, walk>>

\* Project.set_root(nav): self._root = nav, then the assignment to the
\* property nav.associated_project, which raises when it has no setter.
set_root(n) ==
    /\ IsNav(n)
    /\ project_root' = n
    /\ IF associated_project_has_setter
       THEN /\ own_project' = [own_project EXCEPT ![n] = TRUE]
            /\ outcome' = [op |-> "set_root", raised |-> "none", node |-> n,
                           arg |-> "none"]
       ELSE /\ own_project' = own_project
            /\ outcome' = [op |-> "set_root", raised |-> "AttributeError", node |-> n,
                           arg |-> "none"]
    /\ UNCHANGED <<tree, meta, reqs, shifted, attrs, leaf, dep, plug, walk>>

\* page += MkDependencyTable(pkg): a new dependency table as the last item
\* of page p
add_dependency_table(p, pkg) ==
    LET table == Fresh
    IN /\ IsPage(p)
       /\ table # 0
       /\ Cardinality({n \in Nodes : kind[n] = "MkDependencyTable"}) < MaxTables
       /\ kind' = [kind EXCEPT ![table] = "MkDependencyTable"]
       /\ package' = [package EXCEPT ![table] = pkg]
       /\ parent' = [parent EXCEPT ![table] = p]
       /\ items' = [items EXCEPT ![p] = Append(items[p], table)]
       /\ UNCHANGED <<section, path, nav, data, files, held, assigned,
                      meta, reqs, shifted, attrs, leaf, proj, required, plug, walk>>

\* MkNodesPlugin.on_files with a build script that built the tree of the
\* project's root and ends with a return, SystemExit(0) or SystemExit(1).
on_files(ends) ==
    LET result == on_files_result(ends, project_root)
    IN /\ outcome' = [op |-> "on_files", raised |-> result.raised,
                      node |-> project_root, arg |-> ends]
       /\ written' = result.written
       /\ UNCHANGED <<tree, meta, reqs, shifted, attrs, leaf,
                      project_root, own_project, dep, walk>>

\* list(doc.iter_classes(recursive=True)): the call from outside, for the
\* documented module, with _seen = None.
call_iter_classes ==
    LET id == iter_classes_seen(seen_sets, 0)
    IN /\ calls = 0
       /\ calls' = 1
       /\ seen_sets' = with_seen(seen_sets, id)
       /\ frames' = <<[mod |-> RootModule, i |-> 1, seen |-> id]>>
       /\ outcome' = [op |-> "iter_classes", raised |-> "none", node |-> 0,
                      arg |-> "none"]
       /\ UNCHANGED <<tree, meta, reqs, shifted, attrs, leaf, project_root,
                      own_project, dep, plug, mod_members, in_package, entered>>

\* One round of the loop over the modules among the members of the module
\* of the innermost call: the member is skipped, or added to seen and
\* iter_classes called for it with _seen = seen; a call beyond the
\* recursion limit raises RecursionError, which ends all calls; a call
\* for which to_module gives None returns before it chooses its seen.
visit_member ==
    /\ frames # <<>>
    /\ LET top    == frames[Len(frames)]
           submod == mod_members[top.mod][top.i]
           rest1  == [frames EXCEPT ![Len(frames)].i = top.i + 1]
       IN /\ top.i <= Len(mod_members[top.mod])
          /\ IF recurses_into(submod, seen_sets[top.seen])
             THEN LET added == [seen_sets EXCEPT ![top.seen] = @ \cup {submod}]
                      id    == iter_classes_seen(added, top.seen)
                  IN IF Len(frames) < MaxDepth
                     THEN /\ \E r \in to_module_results :
                               IF r = "None"
                               THEN /\ seen_sets' = added
                                    /\ frames' = rest1
                               ELSE /\ seen_sets' = with_seen(added, id)
                                    /\ frames' = Append(rest1, [mod |-> submod, i |-> 1,
                                                                seen |-> id])
                          /\ entered' = [entered EXCEPT ![submod] = @ + 1]
                          /\ outcome' = outcome
                     ELSE /\ seen_sets' = added
                          /\ frames' = <<>>
                          /\ entered' = entered
                          /\ outcome' = [outcome EXCEPT !.raised = "RecursionError"]
             ELSE /\ frames' = rest1
                  /\ UNCHANGED <<seen_sets, entered, outcome>>
    /\ UNCHANGED <<tree, meta, reqs, shifted, attrs, leaf, project_root,
                   own_project, dep, plug, mod_members, in_package, calls>>

\* The end of the innermost call: the loop over the modules is through, the
\* classes of the module are yielded and the call returns.
return_classes ==
    /\ frames # <<>>
    /\ frames[Len(frames)].i > Len(mod_members[frames[Len(frames)].mod])
    /\ frames' = SubSeq(frames, 1, Len(frames) - 1)
    /\ UNCHANGED <<tree, meta, reqs, shifted, attrs, leaf, proj, dep, plug,
                   mod_members, in_package, seen_sets, entered, calls>>

\* The orders the iteration over a set of strings can have.
Orders(S) == {o \in [1..Cardinality(S) -> S] : \A i, j \in 1..Cardinality(S) :
                                                    o[i] = o[j] => i = j}

\* MkNode.add_css_class(class_name) on node n: self._css_classes.add(...).
\* The order a set of strings iterates in is the hash table's and not the
\* order of the adds.
add_css_class(n, class_name) ==
    /\ kind[n] # "none"
    /\ IF class_name \in SeqToSet(css_classes[n])
       THEN UNCHANGED <<css_classes, css_added>>
       ELSE /\ \E o \in Orders(SeqToSet(css_classes[n]) \cup {class_name}) :
                  css_classes' = [css_classes EXCEPT ![n] = o]
            /\ css_added' = [css_added EXCEPT ![n] = Append(css_added[n], class_name)]
    /\ UNCHANGED <<tree, meta, reqs, shifted, header, indent, shift_levels, more>>

\* Building the tree: the registration operations of a navigation.
Next ==
    \/ \E n \in Nodes, s \in Sections : add_nav(n, s)
    \/ \E n \in Nodes, a \in PageArgs : add_page(n, a.title, a.filename)
    \/ \E n \in Nodes : add_index_page(n)
    \/ \E n \in Nodes, item \in Items, node \in Nodes : setitem(n, item, node)

Spec == Init /\ [][Next]_vars

\* Building the tree, attaching files and collecting the virtual files.
NextFiles ==
    \/ \E n \in Nodes, s \in Sections : add_nav(n, s)
    \/ \E n \in Nodes, a \in FilePageArgs : add_page(n, a.title, a.filename)
    \/ \E p \in Nodes, d \in TableData : add_table(p, d)
    \/ \E n \in Nodes, f \in FileNames, d \in FileData : add_file(n, f, d)
    \/ \E n \in Nodes, oc \in BOOLEAN : call_all_virtual_files(n, oc, MaxCalls)

SpecFiles == Init /\ [][NextFiles]_vars

\* Calls of all_virtual_files before and after a change of the tree.
NextSnapshot ==
    \/ \E n \in Nodes : add_nav(n, sX)
    \/ \E n \in Nodes : add_page(n, sY, None)
    \/ \E p \in Nodes, d \in TableData : add_table(p, d)
    \/ \E n \in Nodes, f \in FileNames, d \in FileData : add_file(n, f, d)
    \/ \E n \in Nodes, oc \in BOOLEAN : call_all_virtual_files(n, oc, MaxKept)

SpecSnapshot == Init /\ [][NextSnapshot]_vars

\* Pages below navigations and the metadata set on both.
NextMeta ==
    \/ \E n \in Nodes : add_nav(n, sX)
    \/ \E par \in Nodes, t \in PageTitles : MkPage_new(par, t, sX, FALSE)
    \/ \E n \in Nodes, f \in Fields, v \in MetaValues : MkPage_set(n, f, v)
    \/ \E n \in Nodes, f \in Fields, v \in MetaValues : MkNav_set_metadata(n, f, v)

SpecMeta == Init /\ [][NextMeta]_vars

\* Pages made from files, below navigations that set metadata or without a
\* parent.
NextFromFile ==
    \/ \E n \in Nodes : add_nav(n, sX)
    \/ \E par \in Nodes \cup {0}, t \in PageTitles, d \in FileMeta, k \in Kwargs :
          MkPage_from_file(par, t, d, k)
    \/ \E n \in Nodes, f \in Fields, v \in MetaValues : MkNav_set_metadata(n, f, v)

SpecFromFile == Init /\ [][NextFromFile]_vars

\* Reads of a page's metadata before and after changes of the metadata.
NextMetaRead ==
    \/ \E n \in Nodes : add_nav(n, sX)
    \/ \E n \in Nodes : add_page(n, sY, None)
    \/ \E n \in Nodes, f \in Fields, v \in MetaValues : MkPage_set(n, f, v)
    \/ \E n \in Nodes, f \in Fields, v \in MetaValues : MkNav_set_metadata(n, f, v)
    \/ \E n \in Nodes : read_metadata(n)

SpecMetaRead == Init /\ [][NextMetaRead]_vars

\* Pages constructed with and without the homepage flag, below navigations
\* and without a parent.
NextHome ==
    \/ \E n \in Nodes, s \in {sX, sY} : add_nav(n, s)
    \/ \E par \in Nodes \cup {0}, t \in PageTitles, p \in PagePaths, h \in BOOLEAN :
          MkPage_new(par, t, p, h)

SpecHome == Init /\ [][NextHome]_vars

\* A Requirements object and the records merged into it.
NextRequirements ==
    \/ \E r \in ReqInputs : Requirements_new(r)
    \/ \E other \in OtherInputs : merge(other)

SpecRequirements == InitUnnamed /\ [][NextRequirements]_vars

\* A text and the header shifts applied to it one after the other.
NextShift ==
    \/ \E t \in Texts : give_text(t)
    \/ \E levels \in Levels : shift(levels)
    \/ \E levels \in Levels : run_shift_processor(levels)

SpecShift == InitUnnamed /\ [][NextShift]_vars

\* Leaf nodes with their rendering attributes and css classes.
NextRender ==
    \/ \E d \in RenderTableData, h \in Headers, ind \in Indents, levels \in ShiftArgs :
          MkTable_new(d, h, ind, levels)
    \/ \E n \in Nodes, c \in CssNames : add_css_class(n, c)

SpecRender == InitUnnamed /\ [][NextRender]_vars

\* Text nodes with their rendering attributes, css classes and annotations.
NextPipeline ==
    \/ \E t \in RenderTexts, h \in Headers, ind \in Indents, levels \in RenderShifts :
          MkText_new(t, h, ind, levels)
    \/ \E n \in Nodes, c \in CssNames : add_css_class(n, c)
    \/ \E n \in Nodes, num \in NoteKeys, v \in Notes : annotate(n, num, v)

SpecPipeline == InitUnnamed /\ [][NextPipeline]_vars

\* A project whose root is made by get_root or given by set_root.
NextProject ==
    \/ \E n \in Nodes, s \in Sections : add_nav(n, s)
    \/ \E n \in Nodes : add_page(n, sY, None)
    \/ \E s \in {None, sX} : get_root(s)
    \/ \E n \in Nodes : set_root(n)

SpecProject == InitUnnamed /\ [][NextProject]_vars

\* Dependency tables on pages with and without a project above them.
NextDependencies ==
    \/ \E s \in {None, sX} : get_root(s)
    \/ \E n \in Nodes : add_page(n, sY, None)
    \/ \E p \in Nodes, pkg \in Packages : add_dependency_table(p, pkg)

SpecDependencies == InitDependencies /\ [][NextDependencies]_vars

\* The ways a build script ends.
ScriptEnds == {"return", "SystemExit(0)", "SystemExit(1)"}

\* What a build script does with the project, and the on_files step.
NextPlugin ==
    \/ \E s \in {None, sX} : get_root(s)
    \/ \E n \in Nodes : add_nav(n, sX)
    \/ \E n \in Nodes : add_page(n, sY, None)
    \/ \E n \in Nodes, f \in FileNames, d \in FileData : add_file(n, f, d)
    \/ \E ends \in ScriptEnds : on_files(ends)

SpecPlugin == InitUnnamed /\ [][NextPlugin]_vars

\* The modules of a set in the order of inspect.getmembers (by name).
SortedSeq(S) ==
    CHOOSE s \in [1..Cardinality(S) -> S] : \A i, j \in 1..Cardinality(S) :
                                                  i < j => s[i] < s[j]

\* The state after root = MkNav() and the import of the documented module:
\* any module can hold any modules as members, itself and the documented
\* module among them; the last module can be one of another package.
InitGraphs ==
    /\ InitTree /\ section[Root] = None
    /\ InitMeta /\ InitRequirements /\ InitText /\ InitAttrs
    /\ InitLeaf /\ InitProject /\ InitDep /\ InitPlug /\ InitCalls
    /\ \E g \in [Modules -> SUBSET Modules] :
          mod_members = [m \in Modules |-> SortedSeq(g[m])]
    /\ \E b \in BOOLEAN :
          in_package = [m \in Modules |-> IF m = MaxSubmodules THEN b ELSE TRUE]

\* One iter_classes(recursive=True) call from outside and its recursion.
NextWalk ==
    \/ call_iter_classes
    \/ visit_member
    \/ return_classes

\* The caller consumes the generator to its end.
SpecWalk == InitGraphs /\ [][NextWalk]_vars /\ WF_vars(NextWalk)

\* ------------------------------------------------------------------ claims
\* A navigation is named when its section is a non-empty string; MkNav.__init__
\* treats the empty string like None.
Named(n) == IsNav(n) /\ section[n] # None /\ section[n] # <<>>

\* The names of the named navigations on the path from the root of the tree
\* to node n, n included, the root's first.
RECURSIVE PathNames(_)
PathNames(n) ==
    (IF parent[n] = 0 THEN <<>> ELSE PathNames(parent[n]))
    \o (IF Named(n) THEN <<section[n]>> ELSE <<>>)

\* C1: for every navigation built by add_nav calls from the unnamed root,
\* resolved_parts is the tuple of the section names on the path from the root
\* to that navigation, in root-to-leaf order.
C1_ResolvedParts ==
    section[Root] = None =>
        \A n \in Nodes : IsNav(n) => resolved_parts(n) = PathNames(n)

\* C1 witness: root -> "X" -> "Y" has been built and the leaf resolves to
\* ("X", "Y").
C1_Witness ==
    \E n \in Nodes :
        /\ IsNav(n) /\ section[n] = sY
        /\ parent[n] # 0 /\ section[parent[n]] = sX
        /\ parent[parent[n]] = Root /\ section[Root] = None
        /\ resolved_parts(n) = <<sX, sY>>

\* The step constructs node c.
Constructs(c) == kind[c] = "none" /\ kind'[c] # "none"

\* The step is an add_nav or add_page call on navigation n.
IsAddStep(n) ==
    \/ \E s \in Sections : add_nav(n, s)
    \/ \E a \in PageArgs : add_page(n, a.title, a.filename)

\* The key add_page and add_nav derive for the node c they created: the
\* one-tuple of the section of a navigation, the path of a page without its
\* ".md" extension.
IsDerivedKey(key, c) ==
    IF kind'[c] = "MkNav"
    THEN key = KeyTuple(<<section'[c]>>)
    ELSE key.t = "str" /\ StrOf(key) \o sMd = MkPage_path(path'[c])

\* C8: add_page and add_nav on navigation n create a new child whose parent
\* is n and store it in n's mapping under the derived key.
C8_AddRegisters ==
    [][\A n \in Nodes : IsAddStep(n) =>
          \E c \in Nodes :
              /\ Constructs(c)
              /\ kind'[c] \in {"MkNav", "MkPage"}
              /\ parent'[c] = n
              /\ \E key \in DictKeys(nav'[n]) :
                    IsDerivedKey(key, c) /\ DictGet(nav'[n], key) = c]_vars

\* C8 witness: a page added with the file name "X" is stored under "X" and a
\* navigation "X" under ("X",), both children of the navigation called.
C8_Witness ==
    \E n, c, d \in Nodes :
        /\ IsNav(n) /\ IsPage(c) /\ IsNav(d)
        /\ parent[c] = n /\ parent[d] = n
        /\ path[c] = sX /\ section[d] = sX
        /\ DictHas(nav[n], KeyStr(sX)) /\ DictGet(nav[n], KeyStr(sX)) = c
        /\ DictHas(nav[n], KeyTuple(<<sX>>)) /\ DictGet(nav[n], KeyTuple(<<sX>>)) = d

\* The step is an add_page, add_nav or add_index_page call on navigation n.
IsRegisterStep(n) ==
    \/ IsAddStep(n)
    \/ add_index_page(n)

\* C9: a registration on navigation n stores the new node under its key
\* whether or not the key is taken, keeps one entry per key and leaves the
\* entries under all other keys as they were.
C9_LastWriteWins ==
    [][\A n \in Nodes : IsRegisterStep(n) =>
          \E c \in Nodes :
              /\ Constructs(c)
              /\ \E key \in DictKeys(nav'[n]) :
                    /\ DictGet(nav'[n], key) = c
                    /\ DictKeys(nav'[n]) = DictKeys(nav[n]) \cup {key}
                    /\ \A other \in DictKeys(nav[n]) \ {key} :
                          DictGet(nav'[n], other) = DictGet(nav[n], other)
              /\ DictWellFormed(nav'[n])
              /\ Len(nav'[n]) = Cardinality(DictKeys(nav'[n]))
              /\ \A m \in Nodes \ {n} : nav'[m] = nav[m]]_vars

\* C9 witness: two pages were added to one navigation under the same key, and
\* the mapping holds the later one only; so with two index pages.
C9_Witness ==
    \E n, c, d \in Nodes :
        /\ c < d
        /\ IsPage(c) /\ IsPage(d) /\ parent[c] = n /\ parent[d] = n
        /\ path[c] = path[d]
        /\ \E key \in DictKeys(nav[n]) : DictGet(nav[n], key) = d
        /\ \A i \in 1..Len(nav[n]) : nav[n][i].v # c

\* C10: a node is a child of at most one parent at a time.
C10_SingleOwner ==
    \A c \in Nodes :
        Cardinality({n \in Nodes : c \in SeqToSet(children(n))}) <= 1

\* The sections that are set (not None) of the navigations above node n, the
\* root's first.
RECURSIVE SectionChain(_)
SectionChain(n) ==
    IF parent[n] = 0 THEN <<>>
    ELSE SectionChain(parent[n])
         \o (IF IsNav(parent[n]) /\ section[parent[n]] # None
             THEN <<section[parent[n]]>> ELSE <<>>)

\* The "/"-joined chain as a prefix: followed by "/" unless it is empty.
ExpectedPrefix(n) ==
    LET joined == join(sSlash, SectionChain(n))
    IN IF joined = <<>> THEN <<>> ELSE joined \o sSlash

\* C2: every key of a node's resolved virtual files is the local file name
\* prefixed by the "/"-joined section names of the navigations above it, the
\* root's first; a navigation without a section adds no segment.
C2_ResolvedPrefix ==
    \A n \in Nodes :
        kind[n] # "none" /\ ~virtual_files_raises(n) =>
            LET vf == virtual_files(n)
                rv == resolved_virtual_files(n)
            IN /\ Len(rv) = Len(vf)
               /\ \A i \in 1..Len(vf) :
                     /\ rv[i].k = ExpectedPrefix(n) \o vf[i].k
                     /\ rv[i].v = vf[i].v

\* C2 witness: a page below navigation "X" below the root "Y" resolves its
\* document to "Y/X/Y.md".
C2_Witness ==
    \E n \in Nodes :
        /\ IsPage(n)
        /\ SectionChain(n) = <<sY, sX>>
        /\ DictHas(resolved_virtual_files(n), sY \o sSlash \o sX \o sSlash \o sY \o sMd)

\* The step is a call of all_virtual_files that returned a mapping.
Returned ==
    /\ Len(held') = Len(held) + 1
    /\ ~held'[Len(held')].raised

\* The call of the step.
TheCall == held'[Len(held')]

\* The nodes all_virtual_files merges, in the order it merges them.
Walk(n, only_children) ==
    descendants(n) \o (IF only_children THEN <<>> ELSE <<n>>)

\* The positions in a sequence of nodes of those that resolve a file to k.
Contributors(k, ns) ==
    {i \in 1..Len(ns) : DictHas(resolved_virtual_files(ns[i]), k)}

\* The content the last node of ns that resolves a file to k gives it.
LastContent(k, ns) ==
    DictGet(resolved_virtual_files(ns[Max(Contributors(k, ns))]), k)

\* C3 as stated: when a descendant resolves a file to a path of the result,
\* the result holds the content of the last such descendant, also when the
\* node called resolves a file to the same path.
C3_DescendantWins ==
    [][Returned =>
          \A k \in DictKeys(TheCall.seen) :
              Contributors(k, descendants(TheCall.node)) # {} =>
                  DictGet(TheCall.seen, k) = LastContent(k, descendants(TheCall.node))]_vars

\* C3 amended: the node merged last wins.  The descendants are merged in
\* walk order and the node called is merged after them, so its own content
\* wins over any descendant's.
C3_LastMergedWins ==
    [][Returned =>
          LET w == Walk(TheCall.node, TheCall.only_children)
          IN /\ \A k \in DictKeys(TheCall.seen) :
                    /\ Contributors(k, w) # {}
                    /\ DictGet(TheCall.seen, k) = LastContent(k, w)
             /\ ~TheCall.only_children =>
                    \A k \in DictKeys(resolved_virtual_files(TheCall.node)) :
                        /\ DictHas(TheCall.seen, k)
                        /\ DictGet(TheCall.seen, k)
                             = DictGet(resolved_virtual_files(TheCall.node), k)]_vars

\* C3 witness: the caller holds the result of a call on a node that collides
\* with one of its descendants on a path with different contents, and the
\* result has the node's own content.
C3_Witness ==
    /\ Len(held) >= 1
    /\ LET h == held[1]
       IN /\ ~h.raised /\ ~h.only_children
          /\ h.seen = all_virtual_files(h.node, FALSE)
          /\ \E k \in DictKeys(resolved_virtual_files(h.node)) :
                /\ Contributors(k, descendants(h.node)) # {}
                /\ LastContent(k, descendants(h.node))
                     # DictGet(resolved_virtual_files(h.node), k)
                /\ DictGet(h.seen, k) = DictGet(resolved_virtual_files(h.node), k)

\* txt contains sub as a contiguous part.
Contains(txt, sub) ==
    \E i \in 1..(Len(txt) - Len(sub) + 1) : SubSeq(txt, i, i + Len(sub) - 1) = sub

\* The tree is root nav -> sub-nav "X" -> page "Y" -> table t with rows, and
\* no file is attached to any node.
Scenario(x, y, t) ==
    /\ section[Root] = None
    /\ IsNav(x) /\ parent[x] = Root /\ section[x] = sX
    /\ nav[Root] = <<[k |-> KeyTuple(<<sX>>), v |-> x]>>
    /\ IsPage(y) /\ parent[y] = x /\ path[y] = sY \o sMd
    /\ nav[x] = <<[k |-> KeyStr(sY), v |-> y]>>
    /\ IsTable(t) /\ parent[t] = y /\ items[y] = <<t>>
    /\ \E i \in 1..Len(data[t]) : data[t][i].values # <<>>
    /\ \A n \in Nodes : files[n] = <<>>

sX_SUMMARY_MD == sX \o sSlash \o sSUMMARY_MD
sX_Y_MD == sX \o sSlash \o sY \o sMd

\* C4: all_virtual_files on the root of root nav -> sub-nav "X" -> page "Y"
\* with one table returns the keys "SUMMARY.md", "X/SUMMARY.md" and "X/Y.md",
\* and the content under "X/Y.md" contains the table's markdown: a "| " and a
\* dashed divider row.
C4_RoundTrip ==
    [][\A x, y, t \in Nodes :
          /\ Scenario(x, y, t)
          /\ Len(held') = Len(held) + 1
          /\ TheCall.node = Root /\ ~TheCall.only_children
          => /\ ~TheCall.raised
             /\ {sSUMMARY_MD, sX_SUMMARY_MD, sX_Y_MD} \subseteq DictKeys(TheCall.seen)
             /\ Contains(DictGet(TheCall.seen, sX_Y_MD), MkTable_to_markdown(data[t]))
             /\ Contains(DictGet(TheCall.seen, sX_Y_MD), <<"|", " ">>)
             /\ Contains(DictGet(TheCall.seen, sX_Y_MD), <<"\n", "|", " ", "-">>)]_vars

\* C4 witness: the scenario tree has been built and the caller holds the
\* result of all_virtual_files on its root, with "X/Y.md" in it.
C4_Witness ==
    /\ \E x, y, t \in Nodes : Scenario(x, y, t)
    /\ Len(held) >= 1
    /\ held[1].node = Root /\ ~held[1].only_children /\ ~held[1].raised
    /\ held[1].seen = all_virtual_files(Root, FALSE)
    /\ DictHas(held[1].seen, sX_Y_MD)

\* C5: a file registered with add_file on a navigation that is merged is in
\* the result of all_virtual_files under its name with the section prefix,
\* next to the navigation's summary file.
C5_NavFilesKept ==
    [][Returned =>
          LET w == Walk(TheCall.node, TheCall.only_children)
          IN \A i \in 1..Len(w) :
                IsNav(w[i]) =>
                    /\ DictHas(TheCall.seen, ExpectedPrefix(w[i]) \o path[w[i]])
                    /\ \A f \in DictKeys(files[w[i]]) :
                          DictHas(TheCall.seen, ExpectedPrefix(w[i]) \o f)]_vars

\* The resolved paths node n registers: those of the files attached to it
\* and, for a navigation or a page, that of its own document.
RegisteredPaths(n) ==
    [i \in 1..Len(files[n]) |-> ExpectedPrefix(n) \o files[n][i].k]
    \o (IF IsNav(n) THEN <<ExpectedPrefix(n) \o path[n]>>
        ELSE IF IsPage(n) THEN <<ExpectedPrefix(n) \o MkPage_path(path[n])>>
        ELSE <<>>)

RECURSIVE AllRegisteredPaths(_)
AllRegisteredPaths(ns) ==
    IF ns = <<>> THEN <<>>
    ELSE RegisteredPaths(ns[1]) \o AllRegisteredPaths(Tail(ns))

\* C6: with N files registered in the nodes merged, the result has N entries
\* when their resolved paths are pairwise different and fewer otherwise.
C6_EntryCount ==
    [][Returned =>
          LET r == AllRegisteredPaths(Walk(TheCall.node, TheCall.only_children))
          IN IF \A i, j \in 1..Len(r) : r[i] = r[j] => i = j
             THEN Len(TheCall.seen) = Len(r)
             ELSE Len(TheCall.seen) < Len(r)]_vars

\* What the caller reads in a mapping it holds after the step.
ContentAfter(h) == IF h.alias # 0 THEN files'[h.alias] ELSE h.val

\* The mapping as a set of (path, content) pairs.
Pairs(d) == {<<d[i].k, d[i].v>> : i \in 1..Len(d)}

\* The files of the tree below n as it is now: for every path a node merged
\* resolves a file to, the content of the last such node.
FilesOfTree(n, only_children) ==
    LET w    == Walk(n, only_children)
        keys == UNION {DictKeys(resolved_virtual_files(w[i])) : i \in 1..Len(w)}
    IN {<<k, LastContent(k, w)>> : k \in keys}

\* C7: a step of any kind leaves the mappings returned earlier as the caller
\* saw them when they were returned, and a call returns the files of the tree
\* as it is at the call, whatever earlier calls returned.
C7_Snapshot ==
    [][/\ \A i \in 1..Len(held) :
             /\ i <= Len(held') /\ held'[i] = held[i]
             /\ ContentAfter(held[i]) = held[i].seen
       /\ Returned =>
             /\ DictWellFormed(TheCall.seen)
             /\ Pairs(TheCall.seen) = FilesOfTree(TheCall.node, TheCall.only_children)]_vars

\* C7 witness: the caller holds the results of two calls on the same node
\* with a change of the tree between them: the first is as it was returned,
\* the second differs from it and has the files of the tree as it is now.
C7_Witness ==
    /\ Len(held) = 2
    /\ held[1].node = held[2].node
    /\ ~held[1].only_children /\ ~held[2].only_children
    /\ ~held[1].raised /\ ~held[2].raised
    /\ Content(held[1]) = held[1].seen
    /\ held[1].seen # held[2].seen
    /\ Pairs(held[2].seen) = FilesOfTree(held[2].node, FALSE)

\* The link target of one line of a literate nav, "* [title](target)"; None
\* for a line that only names a group.
LineTarget(line) ==
    IF \E i \in 1..(Len(line) - 1) : line[i] = "]" /\ line[i + 1] = "("
    THEN LET i == CHOOSE j \in 1..(Len(line) - 1) :
                     /\ line[j] = "]" /\ line[j + 1] = "("
                     /\ \A k \in 1..(j - 1) : ~(line[k] = "]" /\ line[k + 1] = "(")
         IN SubSeq(line, i + 2, Len(line) - 1)
    ELSE None

\* The link targets of a rendered navigation, from top to bottom.
LinkTargets(txt) ==
    LET lines   == split(txt, "\n")
        targets == [i \in 1..Len(lines) |-> LineTarget(lines[i])]
    IN SelectSeq(targets, LAMBDA t : t # None)

\* What the direct entries of navigation n link to, in insertion order, the
\* entry keyed None left out: a page its own path, a navigation "<section>/".
EntryTargets(n) ==
    LET listed == SelectSeq(nav[n], LAMBDA e : e.k # KeyNone)
    IN [i \in 1..Len(listed) |->
           IF IsNav(listed[i].v) THEN str(section[listed[i].v]) \o sSlash
           ELSE MkPage_path(path[listed[i].v])]

\* C11: the rendering of a navigation links exactly its direct entries, in
\* insertion order and without the entry keyed None: a page by its own path,
\* a nested navigation by the one link "<section>/".
C11_DirectEntriesListed ==
    \A n \in Nodes :
        IsNav(n) /\ ~MkNav_to_markdown_raises(n)
            => LinkTargets(MkNav_to_markdown(n)) = EntryTargets(n)

\* The value of field f the nearest ancestor navigation of n that sets f
\* holds; None when no ancestor navigation sets it.
RECURSIVE Inherited(_, _)
Inherited(n, f) ==
    IF parent[n] = 0 THEN None
    ELSE IF IsNav(parent[n]) /\ metadata[parent[n]][f] # None
    THEN metadata[parent[n]][f]
    ELSE Inherited(parent[n], f)

\* The page's own value of f when it sets one, else the inherited one.
Resolved(p, f) == IF metadata[p][f] # None THEN metadata[p][f] ELSE Inherited(p, f)

\* C12: every metadata field of a page resolves to the page's own value when
\* the page sets the field, else to the value of the nearest ancestor
\* navigation that sets it, else it is unset.
C12_NearestWins ==
    \A p \in Nodes : IsPage(p) => \A f \in Fields : MkPage_metadata(p)[f] = Resolved(p, f)

\* C12 witness: a page below three nested navigations of which only the
\* middle one sets the icon resolves to the middle one's icon, and its own
\* title wins over the title the navigation next to it sets.
C12_Witness ==
    \E p, inner, middle, outer \in Nodes :
        /\ IsPage(p) /\ parent[p] = inner /\ parent[inner] = middle
        /\ parent[middle] = outer /\ parent[outer] = 0
        /\ IsNav(inner) /\ IsNav(middle) /\ IsNav(outer)
        /\ metadata[p]["icon"] = None /\ metadata[inner]["icon"] = None
        /\ metadata[outer]["icon"] = None /\ metadata[middle]["icon"] # None
        /\ MkPage_metadata(p)["icon"] = metadata[middle]["icon"]
        /\ metadata[p]["title"] # None /\ metadata[inner]["title"] # None
        /\ metadata[inner]["title"] # metadata[p]["title"]
        /\ MkPage_metadata(p)["title"] = metadata[p]["title"]

\* A step that reads the metadata of a page, and what it returned.
IsMetadataRead == Len(mread') = Len(mread) + 1
TheRead == mread'[Len(mread')]

\* C13: every read of a page's metadata gives the values as the page and its
\* ancestors hold them at the read, whatever was read or set before.
C13_ReadIsLive ==
    [][IsMetadataRead =>
          /\ IsPage(TheRead.page)
          /\ \A f \in Fields : TheRead.val[f] = Resolved(TheRead.page, f)]_vars

\* C13 witness: two reads of the same page with a change of an ancestor's
\* metadata between them; the second read has the new value of a field the
\* page does not set itself.
C13_Witness ==
    /\ Len(mread) = 2
    /\ mread[1].page = mread[2].page
    /\ \E f \in Fields :
          /\ metadata[mread[2].page][f] = None
          /\ mread[1].val[f] # None
          /\ mread[2].val[f] # mread[1].val[f]
          /\ mread[2].val[f] = Inherited(mread[2].page, f)

\* C14: the resolved file path of a page flagged as homepage is "index.md",
\* whatever its explicit path, its title and the navigations above it.
C14_HomepageIsIndex ==
    \A p \in Nodes :
        IsPage(p) /\ is_homepage[p] => MkPage_resolved_file_path(p) = sIndexMd

\* C14 witness: a homepage with an explicit path and a title below two named
\* navigations; without the flag its resolved path would be X/Y/X.md.
C14_Witness ==
    \E p \in Nodes :
        /\ IsPage(p) /\ is_homepage[p]
        /\ path[p] = sX /\ metadata[p]["title"] = sY
        /\ parent[p] # 0 /\ parent[parent[p]] # 0
        /\ Named(parent[p]) /\ Named(parent[parent[p]])
        /\ section[parent[p]] # section[parent[parent[p]]]
        /\ MkPage_resolved_file_path(p) = sIndexMd
        /\ MkPage_resolved_file_path_plain(p) # sIndexMd

\* C15: reading the path of a homepage that has no parent navigation fails
\* with an error; no path is returned.
C15_HomepageNeedsParent ==
    \A p \in Nodes :
        IsPage(p) /\ is_homepage[p] /\ parent[p] = 0 => MkPage_path_get(p).raised

\* C20: the metadata read from the page MkPage.from_file returns has the
\* fields parsed from the header of the file, those given as keyword
\* arguments replaced by the arguments' values.
C20_FromFileMetadata ==
    [][\A c \in Nodes :
          ~loaded[c].is /\ loaded'[c].is =>
              LET want == Metadata_update(loaded'[c].data, loaded'[c].kwargs)
              IN \A f \in Fields : want[f] # None => (MkPage_metadata(c))'[f] = want[f]]_vars

\* A step that merges a record into req, and the record.
IsMerge == Len(req_args') = Len(req_args) + 1
TheOther == req_args'[Len(req_args')]

\* The dict after is the dict before overlaid by over: it has the keys of
\* both, each once, with over's value where over has the key.
Overlaid(after, before, over) ==
    /\ DictWellFormed(after)
    /\ DictKeys(after) = DictKeys(before) \cup DictKeys(over)
    /\ \A k \in DictKeys(after) :
          DictGet(after, k) = IF DictHas(over, k) THEN DictGet(over, k)
                              ELSE DictGet(before, k)

\* C16: merge leaves the receiver with its css and js_files overlaid by the
\* other's, with the union of the plugins, and with its templates followed
\* by all templates of the other, those it already holds included.
C16_Merge ==
    [][IsMerge =>
          /\ Overlaid(req'.css, req.css, TheOther.css)
          /\ Overlaid(req'.js_files, req.js_files, TheOther.js_files)
          /\ req'.plugins = req.plugins \cup TheOther.plugins
          /\ Len(req'.templates) = Len(req.templates) + Len(TheOther.templates)
          /\ SubSeq(req'.templates, 1, Len(req.templates)) = req.templates
          /\ SubSeq(req'.templates, Len(req.templates) + 1, Len(req'.templates))
                = TheOther.templates]_vars

\* C16 witness: the same record was merged twice into a receiver that has a
\* template and a css entry of its own; the css value of the record has
\* replaced the receiver's, and the record's template is there twice.
C16_Witness ==
    /\ Len(req_args) = 2
    /\ req_args[1] = req_args[2]
    /\ req_args[1].templates = <<"t2">>
    /\ req.templates = <<"t1", "t2", "t2">>
    /\ req_args[1].css = <<[k |-> sCss, v |-> <<"2">>], [k |-> sB, v |-> <<"1">>]>>
    /\ req.css = req_args[1].css
    /\ req.plugins = {"p", "q"}

\* The line is a heading of level h: h "#", one to six, and a blank.
IsHeading(line, h) ==
    /\ h \in 1..6
    /\ Len(line) > h
    /\ SubSeq(line, 1, h) = hashes(h)
    /\ line[h + 1] = " "

\* No heading of the text is above level 6 when k levels are added.
WithinBounds(t, k) ==
    LET lines == split(t, "\n")
    IN \A i \in 1..Len(lines) : \A h \in 1..6 : IsHeading(lines[i], h) => h + k <= 6

\* C17: a text shifted by +k and then by -k, k > 0, is the text it was, when
\* no heading is above level 6 after the shift by +k.
C17_ShiftRoundTrip ==
    (/\ Len(shifts) = 2
     /\ shifts[1].levels > 0
     /\ shifts[2].levels = 0 - shifts[1].levels
     /\ WithinBounds(text0, shifts[1].levels))
        => text = text0

\* C17 witness: a heading of level 4 was shifted by +2, which made it one of
\* level 6, and by -2, and is as it was given.
C17_Witness ==
    /\ Len(shifts) = 2
    /\ shifts[1] = [by |-> "function", levels |-> 2]
    /\ shifts[2] = [by |-> "processor", levels |-> 0 - 2]
    /\ text0 = hashes(4) \o <<" ", "a">>
    /\ shift_header_levels(text0, 2) = hashes(6) \o <<" ", "a">>
    /\ text = text0

\* The attribute list "{: .c1 .c2 ...}" of the classes in the given order.
AttrList(classes) ==
    <<"{", ":", " ">>
    \o join(<<" ">>, [i \in 1..Len(classes) |-> <<".">> \o classes[i]])
    \o <<"}">>

\* C18: the rendered text of a leaf node with css classes ends with the
\* attribute list of its classes, each once, in the order of their first
\* add_css_class call.
C18_CssSuffixInAddOrder ==
    \A n \in Nodes :
        IsTable(n) /\ css_added[n] # <<>>
            => EndsWith(MkNode_to_markdown(n), AttrList(css_added[n]))

\* C19: a table none of whose columns holds a value renders its raw
\* markdown as the empty string.
C19_EmptyTable ==
    \A n \in Nodes :
        IsTable(n) /\ (\A i \in 1..Len(data[n]) : Len(data[n][i].values) = 0)
            => MkTable_to_markdown(data[n]) = <<>>

\* C19 witness: a table with the columns A and B and no values renders as
\* the empty string, where a table with a value renders a header line.
C19_Witness ==
    \E n \in Nodes :
        /\ IsTable(n)
        /\ Len(data[n]) = 2
        /\ data[n][1].values = <<>> /\ data[n][2].values = <<>>
        /\ MkTable_to_markdown(data[n]) = <<>>
        /\ MkTable_to_markdown(<<[name |-> <<"A">>, values |-> << <<"1">> >>]>>) # <<>>

\* The heading line MkNode.to_markdown puts before the text of node n.
HeaderLine(n) ==
    IF header[n][1] = "#" THEN header[n] ELSE <<"#", "#", " ">> \o header[n]

\* The text of node n behind its header: the raw markdown with the headings
\* shifted first, the lines indented second and the css classes last.
BodyInOrder(n) ==
    LET s == IF shift_levels[n] = 0 THEN raw[n]
             ELSE shift_header_levels(raw[n], shift_levels[n])
        i == IF indent[n] = <<>> THEN s ELSE textwrap_indent(s, indent[n])
    IN IF css_classes[n] = <<>> THEN i ELSE i \o css_suffix(css_classes[n])

\* C22: MkNode.to_markdown shifts the headings, then indents, then appends
\* the css classes, then prepends the header, then attaches the annotations:
\* the rendered text of a node with a header starts with the header line
\* (as given when it starts with "#", else behind "## ") and a blank line,
\* neither shifted nor indented; the annotations are attached at the end
\* with and without a header; and between them stands the body in order.
C22_PipelineOrder ==
    \A n \in Nodes :
        kind[n] = "MkText" =>
            LET out    == MkNode_to_markdown(n)
                headed == IF header[n] = <<>> THEN BodyInOrder(n)
                          ELSE HeaderLine(n) \o <<"\n", "\n">> \o BodyInOrder(n)
            IN /\ header[n] # <<>> =>
                      SubSeq(out, 1, Len(HeaderLine(n)) + 2)
                          = HeaderLine(n) \o <<"\n", "\n">>
               /\ annotations[n] # <<>> =>
                      EndsWith(out, <<"\n", "\n">> \o annotation_list(annotations[n]))
               /\ out = annotate_text(annotations[n], headed)

\* C22 witness: a text node with a heading line, shifted by one, indented
\* by a blank, with the header "H", a css class and an annotation renders
\* the header line untouched and the heading shifted before it is indented.
C22_Witness ==
    \E n \in Nodes :
        /\ kind[n] = "MkText"
        /\ raw[n] = <<"a", "\n", "#", " ", "a", "\n">>
        /\ shift_levels[n] = 1 /\ indent[n] = <<" ">> /\ header[n] = <<"H">>
        /\ css_classes[n] = <<sA>>
        /\ annotations[n] = <<[k |-> 1, v |-> sB]>>
        /\ MkNode_to_markdown(n)
             = <<"#", "#", " ", "H", "\n", "\n",
                 " ", "a", "\n", " ", "#", "#", " ", "a", "\n",
                 "{", ":", " ", ".", "a", "}", "\n", "\n",
                 "1", ".", " ", "b", "\n">>

\* A step that shifts the text by a negative number of levels.
IsNegativeShift ==
    /\ Len(shifts') = Len(shifts) + 1
    /\ shifts'[Len(shifts')].levels < 0

\* The line a negative shift by levels makes of a line: a heading of level h
\* keeps h - abs(levels) of its "#", none when that is below one, before the
\* blank and its text; any other line stays.
Unmarked(line, levels) ==
    IF \E h \in 1..6 : IsHeading(line, h)
    THEN LET h == CHOOSE h \in 1..6 : IsHeading(line, h)
         IN (IF h + levels >= 1 THEN hashes(h + levels) ELSE <<>>)
            \o <<" ">> \o SubSeq(line, h + 2, Len(line))
    ELSE line

\* C23: a negative shift, by the function or by the processor, removes
\* abs(shift) "#" from the marker of every heading line and leaves an empty
\* marker (a blank and the heading text) when the marker has no more than
\* that; every other line, and so a text without headings, stays as it is.
C23_NegativeShift ==
    [][IsNegativeShift =>
          LET levels == shifts'[Len(shifts')].levels
              old    == split(text, "\n")
              new    == split(text', "\n")
          IN /\ Len(new) = Len(old)
             /\ \A i \in 1..Len(old) : new[i] = Unmarked(old[i], levels)
             /\ (\A i \in 1..Len(old) : \A h \in 1..6 : ~IsHeading(old[i], h))
                    => text' = text]_vars

\* C23 witness: the heading "# a" shifted by -2 is " a", and the line of
\* seven "#" shifted by -1 is as it was.
C23_Witness ==
    /\ Len(shifts) = 1 /\ shifts[1].levels = 0 - 2
    /\ text0 = <<"#", " ", "a">>
    /\ text = <<" ", "a">>
    /\ shift_header_levels(hashes(7) \o <<" ", "a">>, 0 - 1) = hashes(7) \o <<" ", "a">>
    /\ ShiftHeaderLevelProcessor_run(hashes(4) \o <<" ", "a">>, 0 - 1)
         = hashes(3) \o <<" ", "a">>

\* C24: a node is an entry of the mapping of navigation n exactly when its
\* parent is n.
C24_ParentChildConsistent ==
    \A n, c \in Nodes :
        (IsNav(n) /\ (IsNav(c) \/ IsPage(c)))
            => ((\E i \in 1..Len(nav[n]) : nav[n][i].v = c) <=> parent[c] = n)

\* The directory prefix MkPage.resolved_file_path puts before the page path:
\* the "/"-joined resolved_parts and a "/", nothing when there are no parts
\* (the leading "/" is stripped).
PartsPrefix(n) ==
    IF resolved_parts(n) = <<>> THEN <<>>
    ELSE join(sSlash, resolved_parts(n)) \o sSlash

\* C25: for every page, the directory prefix of resolved_virtual_files is
\* the prefix resolved_file_path builds from resolved_parts.
C25_PathsAgree ==
    \A p \in Nodes : IsPage(p) => resolved_section(p) = PartsPrefix(p)

\* C26: the function and the processor make the same text of every text
\* for every shift, and for a shift of 0 the text itself.
C26_SameShift ==
    \A levels \in Levels :
        /\ shift_header_levels(text, levels) = ShiftHeaderLevelProcessor_run(text, levels)
        /\ levels = 0 => shift_header_levels(text, levels) = text

\* The step is a call of Project.set_root(n).
IsSetRoot(n) == outcome' # outcome /\ outcome'.op = "set_root" /\ outcome'.node = n

\* C28: set_root(nav) ends without an error; afterwards nav is the root the
\* project uses, and the project is the associated project of nav and of
\* every node below it that has no project of its own.
C28_SetRoot ==
    [][\A n \in Nodes :
          IsSetRoot(n)
              => /\ outcome'.raised = "none"
                 /\ Project_root_used' = n
                 /\ associated_project(n)' = "project"
                 /\ \A d \in SeqToSet(descendants(n)) :
                        associated_project(d)' = "project"]_vars

\* The required packages a dependency table shows: those of its package,
\* of the project when it has no package, and none when there is neither.
Shown(n) ==
    IF package[n].t = "str" THEN <<required[package[n].name]>>
    ELSE IF package[n].t = "None" /\ associated_project(n) # "None"
    THEN <<required["project"]>>
    ELSE <<>>

\* C27: a dependency table whose package (or project) requires no packages
\* raises no error when its data is read and renders as the empty string;
\* without a package and without a project its data is the empty mapping.
C27_NoDependencies ==
    \A n \in Nodes :
        kind[n] = "MkDependencyTable" =>
            /\ Shown(n) = << <<>> >> =>
                  /\ MkDependencyTable_data(n).raised = "none"
                  /\ MkDependencyTable_to_markdown(n) = [raised |-> "none", val |-> <<>>]
            /\ (package[n].t = "None" /\ associated_project(n) = "None") =>
                  MkDependencyTable_data(n) = [raised |-> "none", val |-> <<>>]

\* The step is a run of on_files.
IsOnFiles == outcome' # outcome /\ outcome'.op = "on_files"

\* C29: on_files raises PluginError when the build script ends with
\* SystemExit and a truthy code, and goes on when the code is falsy; when
\* the script does not raise, a project without root gives RuntimeError
\* and nothing is written, and else every entry of the root's
\* all_virtual_files is written once (and those the handler would fail to
\* render are left aside).
C29_OnFiles ==
    [][IsOnFiles =>
          /\ outcome'.arg = "SystemExit(1)" => outcome'.raised = "PluginError"
          /\ outcome'.arg = "SystemExit(0)" => outcome'.raised # "PluginError"
          /\ outcome'.arg # "SystemExit(1)" =>
                IF project_root = 0
                THEN outcome'.raised = "RuntimeError" /\ written' = <<>>
                ELSE ~all_virtual_files_raises(project_root, FALSE) =>
                        /\ outcome'.raised = "none"
                        /\ Len(written') = Len(all_virtual_files(project_root, FALSE))
                        /\ \A i \in 1..Len(written') :
                              /\ written'[i].k = all_virtual_files(project_root, FALSE)[i].k
                              /\ written'[i].v = all_virtual_files(project_root, FALSE)[i].v
                              /\ written'[i].mode = "w"]_vars

\* C30: a recursive iter_classes call ends, without an error, for every
\* graph of modules, and it calls itself for every module at most once.
C30_Terminates ==
    /\ [](\A m \in Modules : entered[m] <= 1)
    /\ <>(calls = 1 /\ frames = <<>> /\ outcome.raised = "none")

\* C30 witness: the call is through for two modules that hold each other
\* and the documented module, and it called itself for both of them.
C30_Witness ==
    /\ calls = 1 /\ frames = <<>>
    /\ \E a, b \in Modules \ {RootModule} :
          /\ a # b
          /\ b \in SeqToSet(mod_members[a]) /\ a \in SeqToSet(mod_members[b])
          /\ RootModule \in SeqToSet(mod_members[a])
          /\ in_package[a] /\ in_package[b]
          /\ entered[a] = 1 /\ entered[b] = 1

=============================================================================
